---- MODULE Spec2Model ----
(***************************************************************************)
(* The structured-output contract-enforcement loops of agentic-newsletter: *)
(* the completion clients of the article-categorization, bullet-point and  *)
(* article-extraction stages (retry loop, validation, degraded result) and *)
(* the agents that call them.  One behaviour is one call of one entry      *)
(* point; the provider's outcome on every attempt is chosen freely.        *)
(***************************************************************************)
EXTENDS Integers, Sequences, FiniteSets, TLC

\* ------------------------------------------------------------------ bounds
\* max_retries ranges over 1..MaxRetriesBound
MaxRetriesBound == 2
\* the caller supplies 0..MaxArticles articles
MaxArticles == 2
\* a bullet-point response holds at most MaxItems items
MaxItems == 2

\* ------------------------------------------------------ program constants
\* retry_delay, in seconds (the constructor's default)
RetryDelay == 1
\* error messages show the first 10 offending ids
PreviewLength == 10

\* --------------------------------------------------------- configuration
\* config["article_categories"], in configured order
Categories == <<"Computer Vision", "other topics">>

\* the titles a response may give a group: the configured categories, a
\* title that matches one only up to letter case, and an unknown title
Titles == {"Computer Vision", "computer vision", "other topics", "Robotics"}

\* a response holds at most MaxGroups groups, which mention at most
\* MaxMentions ids in total
MaxGroups == Len(Categories)
MaxMentions == Len(Categories)

\* str.lower() on the titles above
Lower(t) == IF t = "Computer Vision" THEN "computer vision" ELSE t

RECURSIVE Pow2(_)
Pow2(n) == IF n = 0 THEN 1 ELSE 2 * Pow2(n - 1)

\* time.sleep(self.retry_delay * (2 ** (attempt - 1)))
BackoffDelay(a) == RetryDelay * Pow2(a - 1)

\* seq[:n]
Take(seq, n) == IF Len(seq) <= n THEN seq ELSE SubSeq(seq, 1, n)

\* the set of elements of a sequence
Range(seq) == {seq[i] : i \in 1..Len(seq)}

RECURSIVE SortedSeq(_)
\* list(some_set) for a set of small integers: ascending
SortedSeq(S) ==
    IF S = {} THEN <<>>
    ELSE LET m == CHOOSE x \in S : \A y \in S : x <= y
         IN <<m>> \o SortedSeq(S \ {m})

\* ------------------------------------------------- categorization: values
\* f"No articles were found for the {category} category in the specified date range."
NoArticlesSummary(category) == <<"No articles were found for", category>>

\* the summary text a response carries for a group
ModelSummary == <<"summary written by the model">>

ArticleGroupData(title, summary, article_ids) ==
    [title |-> title, summary |-> summary, article_ids |-> article_ids]

ArticleGroupResult(groups) == [kind |-> "ArticleGroupResult", groups |-> groups]

NoneValue == [kind |-> "None"]
NotReturned == [kind |-> "pending"]
Raised(error) == [kind |-> "raised", error |-> error]

\* a degraded result without the placeholder groups
CreateEmptyResult_NoGroups == ArticleGroupResult(<<>>)

\* _create_empty_result: one empty group per configured category
CreateEmptyResult ==
    ArticleGroupResult(
        [i \in 1..Len(Categories) |->
            ArticleGroupData(Categories[i], NoArticlesSummary(Categories[i]), <<>>)])

\* -------------------------------------------------- categorization: input
\* primary keys of parsed_articles rows: sparse, not in order
SparseId(i) == 100 - 7 * i

\* the articles handed to ArticleGrouperAgent.group_articles
AgentArticleLists == {[i \in 1..n |-> SparseId(i)] : n \in 0..MaxArticles}

\* the ArticleData ids handed to OpenAIClient.group_articles when it is called directly
ClientArticleLists == {[i \in 1..n |-> i] : n \in 0..MaxArticles}

\* a mapping that numbers the ids from 0: enumerate without start=1
IdMapping_ZeroBased(original_ids) ==
    [x \in Range(original_ids) |->
        (CHOOSE i \in 1..Len(original_ids) :
            /\ original_ids[i] = x
            /\ \A j \in 1..Len(original_ids) : original_ids[j] = x => j <= i) - 1]

\* _create_id_mapping: the pair (id_mapping, reverse_mapping) as functions
IdMapping(original_ids) ==
    [x \in Range(original_ids) |->
        \* a later occurrence of the same id overwrites the earlier entry
        CHOOSE i \in 1..Len(original_ids) :
            /\ original_ids[i] = x
            /\ \A j \in 1..Len(original_ids) : original_ids[j] = x => j <= i]

ReverseMapping(original_ids) ==
    LET id_mapping == IdMapping(original_ids)
    IN [d \in {id_mapping[x] : x \in DOMAIN id_mapping} |->
            CHOOSE x \in DOMAIN id_mapping : id_mapping[x] = d]

\* ------------------------------------------- categorization: response bodies
IdSeqs(ids, m) == UNION {[1..l -> ids] : l \in 0..m}

RECURSIVE GroupLists(_, _, _)
\* the lists of at most g groups that mention at most m ids in total
GroupLists(ids, g, m) ==
    IF g = 0 THEN {<<>>}
    ELSE {<<>>} \cup
         UNION {
            UNION {
                {<<ArticleGroupData(t, ModelSummary, s)>> \o rest :
                    rest \in GroupLists(ids, g - 1, m - Len(s))}
                : s \in IdSeqs(ids, m)}
            : t \in Titles}

\* what the provider can send back for n articles: text that is no JSON, a
\* JSON value that is no object, an object without "groups", an object whose
\* "groups" is no list of groups, and an object with a list of groups whose
\* ids are drawn from the valid ids 1..n and one hallucinated id n+1
GroupBodies ==
    [n \in 0..MaxArticles |->
        {[kind |-> k, groups |-> <<>>] : k \in {"text", "scalar", "no_key", "bad_shape"}}
        \cup {[kind |-> "ok", groups |-> gs] :
                gs \in GroupLists(1..(n + 1), MaxGroups, MaxMentions)}]

\* --------------------------------------------- categorization: validation
RECURSIVE Flatten(_)
\* the ids of all groups, in the order the two validation passes visit them
Flatten(groups) ==
    IF groups = <<>> THEN <<>>
    ELSE Head(groups).article_ids \o Flatten(Tail(groups))

\* a first pass that looks at the first group alone
InvalidArticleIds_FirstGroupOnly(groups, all_article_ids) ==
    IF groups = <<>> THEN <<>>
    ELSE SelectSeq(groups[1].article_ids, LAMBDA id : id \notin all_article_ids)

\* first pass: the ids that are not in all_article_ids
InvalidArticleIds(groups, all_article_ids) ==
    SelectSeq(Flatten(groups), LAMBDA id : id \notin all_article_ids)

RECURSIVE DuplicatesFrom(_, _)
DuplicatesFrom(ids, assigned_articles) ==
    IF ids = <<>> THEN <<>>
    ELSE (IF Head(ids) \in assigned_articles THEN <<Head(ids)>> ELSE <<>>)
         \o DuplicatesFrom(Tail(ids), assigned_articles \cup {Head(ids)})

\* a second pass that starts from an empty assigned_articles for every group
DuplicateArticleIds_WithinGroupOnly(groups) ==
    IF groups = <<>> THEN <<>>
    ELSE LET perGroup == [i \in 1..Len(groups) |-> DuplicatesFrom(groups[i].article_ids, {})]
         IN Flatten([i \in 1..Len(groups) |-> [article_ids |-> perGroup[i]]])

\* second pass: the ids seen again after they were added to assigned_articles
DuplicateArticleIds(groups) == DuplicatesFrom(Flatten(groups), {})

\* all_article_ids - assigned_articles
MissingArticles(groups, all_article_ids) == all_article_ids \ Range(Flatten(groups))

ErrorEntry(kind, ids) == [kind |-> kind, ids |-> ids]

\* the entry appended to previous_errors for a response, or NoError when the
\* response passes every check; the checks run in the order of the code and
\* the first that fails ends the validation
NoError == ErrorEntry("none", <<>>)

\* a validation that looks for duplicates before it looks for invalid ids
ValidateGroups_DuplicatesFirst(body, valid_article_ids) ==
    LET all_article_ids == Range(valid_article_ids)
        invalid_article_ids == InvalidArticleIds(body.groups, all_article_ids)
        duplicate_article_ids == DuplicateArticleIds(body.groups)
        missing_articles == MissingArticles(body.groups, all_article_ids)
    IN CASE body.kind = "text" -> ErrorEntry("json_decode", <<>>)
         [] body.kind = "scalar" -> ErrorEntry("api_error", <<>>)
         [] body.kind = "no_key" -> ErrorEntry("no_groups", <<>>)
         [] body.kind = "bad_shape" -> ErrorEntry("api_error", <<>>)
         [] OTHER ->
              IF duplicate_article_ids # <<>>
              THEN ErrorEntry("duplicate_ids", Take(duplicate_article_ids, PreviewLength))
              ELSE IF invalid_article_ids # <<>>
              THEN ErrorEntry("invalid_ids", Take(invalid_article_ids, PreviewLength))
              ELSE IF missing_articles # {}
              THEN ErrorEntry("missing_ids", Take(SortedSeq(missing_articles), PreviewLength))
              ELSE NoError

\* a validation without the check for missing assignments
ValidateGroups_NoMissingCheck(body, valid_article_ids) ==
    LET all_article_ids == Range(valid_article_ids)
        invalid_article_ids == InvalidArticleIds(body.groups, all_article_ids)
        duplicate_article_ids == DuplicateArticleIds(body.groups)
    IN CASE body.kind = "text" -> ErrorEntry("json_decode", <<>>)
         [] body.kind = "scalar" -> ErrorEntry("api_error", <<>>)
         [] body.kind = "no_key" -> ErrorEntry("no_groups", <<>>)
         [] body.kind = "bad_shape" -> ErrorEntry("api_error", <<>>)
         [] OTHER ->
              IF invalid_article_ids # <<>>
              THEN ErrorEntry("invalid_ids", Take(invalid_article_ids, PreviewLength))
              ELSE IF duplicate_article_ids # <<>>
              THEN ErrorEntry("duplicate_ids", Take(duplicate_article_ids, PreviewLength))
              ELSE NoError

ValidateGroups(body, valid_article_ids) ==
    LET all_article_ids == Range(valid_article_ids)
        invalid_article_ids == InvalidArticleIds(body.groups, all_article_ids)
        duplicate_article_ids == DuplicateArticleIds(body.groups)
        missing_articles == MissingArticles(body.groups, all_article_ids)
    IN CASE body.kind = "text" -> ErrorEntry("json_decode", <<>>)
         [] body.kind = "scalar" -> ErrorEntry("api_error", <<>>)
         [] body.kind = "no_key" -> ErrorEntry("no_groups", <<>>)
         [] body.kind = "bad_shape" -> ErrorEntry("api_error", <<>>)
         [] OTHER ->
              IF invalid_article_ids # <<>>
              THEN ErrorEntry("invalid_ids", Take(invalid_article_ids, PreviewLength))
              ELSE IF duplicate_article_ids # <<>>
              THEN ErrorEntry("duplicate_ids", Take(duplicate_article_ids, PreviewLength))
              ELSE IF missing_articles # {}
              THEN ErrorEntry("missing_ids", Take(SortedSeq(missing_articles), PreviewLength))
              ELSE NoError

\* category_to_group = {group["title"]: group for group in result["groups"]}:
\* the last group with the title wins
LastWithTitle(groups, title) ==
    CHOOSE i \in 1..Len(groups) :
        /\ groups[i].title = title
        /\ \A j \in 1..Len(groups) : groups[j].title = title => j <= i

\* the groups of the returned result: one per configured category
AssembleGroups(groups) ==
    [i \in 1..Len(Categories) |->
        IF \E j \in 1..Len(groups) : groups[j].title = Categories[i]
        THEN LET group == groups[LastWithTitle(groups, Categories[i])]
             IN ArticleGroupData(Categories[i], group.summary, group.article_ids)
        ELSE ArticleGroupData(Categories[i], NoArticlesSummary(Categories[i]), <<>>)]

\* ------------------------------------------------- categorization: agent
\* lines 86-95: a title outside valid_categories takes the casing of the
\* category it matches case-insensitively, and is kept as it is otherwise
RepairTitle(title) ==
    LET valid_categories == Range(Categories)
    IN IF title \in valid_categories THEN title
       ELSE IF \E c \in valid_categories : Lower(c) = Lower(title)
       THEN CHOOSE c \in valid_categories : Lower(c) = Lower(title)
       ELSE title

\* lines 98-106: the ids found in reverse_mapping, mapped back
OriginalArticleIds(article_ids, reverse_mapping) ==
    LET known == SelectSeq(article_ids, LAMBDA d : d \in DOMAIN reverse_mapping)
    IN [i \in 1..Len(known) |-> reverse_mapping[known[i]]]

\* lines 84-114
RemappedGroups(groups, reverse_mapping) ==
    [i \in 1..Len(groups) |->
        ArticleGroupData(RepairTitle(groups[i].title), groups[i].summary,
                         OriginalArticleIds(groups[i].article_ids, reverse_mapping))]

\* article_categories[original_id] = group.title: the last group that holds
\* the id decides
ArticleCategories(remapped_groups) ==
    [x \in Range(Flatten(remapped_groups)) |->
        LET last == CHOOSE i \in 1..Len(remapped_groups) :
                        /\ x \in Range(remapped_groups[i].article_ids)
                        /\ \A j \in 1..Len(remapped_groups) :
                              x \in Range(remapped_groups[j].article_ids) => j <= i
        IN remapped_groups[last].title]

\* an update that puts every article without a category into "other topics"
UpdateArticleCategories_CatchAll(table, article_categories) ==
    [a \in DOMAIN table |->
        IF a \in DOMAIN article_categories THEN article_categories[a] ELSE "other topics"]

\* DatabaseManager.update_article_categories
UpdateArticleCategories(table, article_categories) ==
    IF DOMAIN article_categories = {} THEN table
    ELSE [a \in DOMAIN table |->
            IF a \in DOMAIN article_categories THEN article_categories[a] ELSE table[a]]

\* ----------------------------------------------------- bullet points: values
\* the assigned_category values that have articles in the date range and
\* are not excluded
BulletCategoryPool == {"Computer Vision", "Robotics"}

\* the keys of articles_by_category, in the order the agent iterates them
CategoryLists ==
    {<<>>} \cup {<<c>> : c \in BulletCategoryPool}
    \cup {cd \in BulletCategoryPool \X BulletCategoryPool : cd[1] # cd[2]}

\* an item of "bullet_points": whether it has the "bullet_point" key, and its
\* scores: "5" is a number in 1..10, "11" a number outside, "high" no number
BulletItems == [has_text : BOOLEAN, score : {"5", "11", "high"}]

\* BulletPointData(...) is built without KeyError, ValueError or TypeError
ItemValid(item) == item.has_text /\ item.score = "5"

BulletBodies ==
    {[kind |-> k, bullet_points |-> <<>>] : k \in {"text", "scalar", "no_key", "bad_shape"}}
    \cup {[kind |-> "ok", bullet_points |-> items] :
            items \in UNION {[1..l -> BulletItems] : l \in 0..MaxItems}}

BulletPointResult(bullet_points, category) ==
    [kind |-> "BulletPointResult", bullet_points |-> bullet_points, category |-> category]

\* the items appended to bullet_points
ValidItems(items) == SelectSeq(items, ItemValid)

\* one "Invalid bullet point data" entry per item that raised
ItemErrors(items) ==
    LET bad == SelectSeq(items, LAMBDA item : ~ItemValid(item))
    IN [i \in 1..Len(bad) |-> ErrorEntry("invalid_bullet_point", <<>>)]

\* ------------------------------------------------- topic summary: values
\* what the provider can send back: text that is no JSON, a JSON number, an
\* object without "summary", and an object whose "summary" is empty or not
TopicBodies ==
    {[kind |-> k, summary |-> ""] : k \in {"text", "scalar", "no_key"}}
    \cup {[kind |-> "ok", summary |-> t] : t \in {"", "summary written by the model"}}

TopicSummaryResult(summary, topic) ==
    [kind |-> "TopicSummaryResult", summary |-> summary, topic |-> topic]

\* ---------------------------------------------------- extraction: values
ExtractBodies ==
    {[kind |-> k, articles |-> <<>>] : k \in {"text", "scalar", "no_key"}}
    \cup {[kind |-> "ok", articles |-> a] : a \in {<<>>, <<"article">>}}

ExtractionResult(articles) == [kind |-> "dict", articles |-> articles]

NoLastError == "None"

\* ------------------------------------------------------------------ state
VARIABLES
    stage,              \* the entry point this behaviour calls
    max_retries,        \* self.max_retries
    articles,           \* the caller's articles (their ids)
    assigned_category,  \* parsed_articles.assigned_category, by article id
    article_data,       \* the ids handed to the completion client
    pc,                 \* where the call stands
    attempt,            \* the loop variable
    use_schema_format,
    previous_errors,
    messages,
    response,           \* the body received and not yet validated
    requests,           \* the completion requests issued by this call
    sleeps,             \* the time.sleep durations of this call
    outcomes,           \* the branch each attempt took
    result,             \* what the completion client returned
    agent_result,       \* what the agent returned
    articles_by_category,  \* bullet points: the categories to process, in order
    category_index,     \* bullet points: the category the agent's loop is at
    results,            \* bullet points: the agent's results dictionary
    error_message,      \* bullet points: the agent's error_message
    dry_run,            \* bullet points: the agent's dry_run argument
    bullet_points_table,   \* bullet points: what _save_bullet_points stored
    generation_logs,    \* bullet points: the log_bullet_point_generation rows
    backoff_time,       \* extraction: the next wait
    last_error,         \* extraction: last_error
    bullet_points_text, \* topic summary: the text handed to generate_topic_summary
    downgraded,         \* history: a call of this client instance, this one or
                        \* an earlier one, has set use_schema_format to False
    other_call,         \* interleaved calls: the locals of the call that is not running
    categories_with_articles,  \* bullet points: the assigned_category values found
                        \* in the date range, in the order of the query
    include_other_topics,  \* bullet points: the agent's include_other_topics argument
    emails,             \* download: the rows of the emails table
    download_logs,      \* download: the log_download rows
    gmail_messages,     \* download: the messages the latest run parsed
    force               \* download: the force argument of the latest run

groupVars == <<articles, assigned_category, article_data>>
bulletVars == <<articles_by_category, category_index, results, error_message, dry_run,
                bullet_points_table, generation_logs>>
extractVars == <<backoff_time, last_error>>
selectionVars == <<categories_with_articles, include_other_topics>>
storeVars == <<emails, download_logs, gmail_messages, force>>
\* the state the categorization, bullet-point, extraction and topic calls
\* leave alone
elsewhere == <<other_call, selectionVars, storeVars>>

vars == <<stage, max_retries, articles, assigned_category, article_data, pc,
          attempt, use_schema_format, previous_errors, messages, response,
          requests, sleeps, outcomes, result, agent_result, bulletVars, extractVars,
          bullet_points_text, elsewhere, downgraded>>

NoBody == [kind |-> "none"]
Unassigned == "unassigned"

SystemMessage(prompt, errors) ==
    [role |-> "system", prompt |-> prompt, error_feedback |-> errors]

ResponseFormat == IF use_schema_format THEN "json_schema" ELSE "json_object"

\* the state of a completion client before its first call
ClientIdle ==
    /\ pc = "start"
    /\ attempt = 0
    /\ use_schema_format = TRUE
    /\ previous_errors = <<>>
    /\ messages = <<>>
    /\ response = NoBody
    /\ requests = <<>>
    /\ sleeps = <<>>
    /\ outcomes = <<>>
    /\ result = NotReturned
    /\ agent_result = NotReturned
    /\ downgraded = FALSE

GroupIdle ==
    /\ articles = <<>>
    /\ assigned_category = <<>>
    /\ article_data = <<>>

BulletIdle ==
    /\ articles_by_category = <<>>
    /\ category_index = 0
    /\ results = <<>>
    /\ error_message = "None"
    /\ dry_run = FALSE
    /\ bullet_points_table = <<>>
    /\ generation_logs = <<>>

ExtractIdle ==
    /\ backoff_time = 0
    /\ last_error = NoLastError

TopicIdle == bullet_points_text = ""

\* no second call is interleaved with the call of the behaviour
NoCall == [id |-> 0]
PairIdle == other_call = NoCall

SelectionIdle ==
    /\ categories_with_articles = <<>>
    /\ include_other_topics = FALSE

StoreIdle ==
    /\ emails = <<>>
    /\ download_logs = <<>>
    /\ gmail_messages = <<>>
    /\ force = FALSE

ElsewhereIdle == PairIdle /\ SelectionIdle /\ StoreIdle

GroupInit ==
    /\ stage \in {"agent.group_articles", "client.group_articles"}
    /\ max_retries \in 1..MaxRetriesBound
    /\ articles \in (IF stage = "agent.group_articles"
                     THEN AgentArticleLists ELSE ClientArticleLists)
    /\ assigned_category = [a \in Range(articles) |-> Unassigned]
    /\ article_data = <<>>
    /\ ClientIdle
    /\ ElsewhereIdle
    /\ BulletIdle
    /\ ExtractIdle
    /\ TopicIdle

BulletInit ==
    /\ stage = "agent.generate_bullet_points"
    /\ max_retries \in 1..MaxRetriesBound
    /\ articles_by_category \in CategoryLists
    /\ dry_run \in BOOLEAN
    /\ category_index = 0
    /\ results = <<>>
    /\ error_message = "None"
    /\ bullet_points_table = <<>>
    /\ generation_logs = <<>>
    /\ ClientIdle
    /\ ElsewhereIdle
    /\ GroupIdle
    /\ ExtractIdle
    /\ TopicIdle

ExtractInit ==
    /\ stage = "client.extract_articles"
    /\ max_retries \in 1..MaxRetriesBound
    /\ ClientIdle
    /\ ElsewhereIdle
    /\ GroupIdle
    /\ BulletIdle
    /\ ExtractIdle
    /\ TopicIdle

TopicInit ==
    /\ stage = "client.generate_topic_summary"
    /\ max_retries \in 1..MaxRetriesBound
    /\ bullet_points_text \in {"", "bullet points"}
    /\ ClientIdle
    /\ ElsewhereIdle
    /\ GroupIdle
    /\ BulletIdle
    /\ ExtractIdle

Init == GroupInit \/ BulletInit \/ ExtractInit \/ TopicInit

clientLocals == <<attempt, use_schema_format, previous_errors, messages, response>>
clientLog == <<requests, sleeps, outcomes>>
callerArgs == <<stage, max_retries, articles, assigned_category, agent_result,
                bulletVars, extractVars, bullet_points_text, elsewhere>>
callerState == <<callerArgs, downgraded>>

\* ------------------------------------- categorization: the completion client
\* the caller calls OpenAIClient.group_articles directly
ClientEntry ==
    /\ stage = "client.group_articles"
    /\ pc = "start"
    /\ article_data' = articles
    /\ pc' = "client_call"
    /\ UNCHANGED <<clientLocals, clientLog, callerState, result>>

\* OpenAIClient.group_articles up to the loop
GroupArticlesBegin ==
    /\ stage \in {"agent.group_articles", "client.group_articles"}
    /\ pc = "client_call"
    /\ IF article_data = <<>>
       THEN /\ result' = CreateEmptyResult
            /\ pc' = "client_return"
            /\ UNCHANGED clientLocals
       ELSE /\ messages' = <<SystemMessage("ARTICLE_GROUPING_PROMPT", <<>>)>>
            /\ use_schema_format' = TRUE
            /\ previous_errors' = <<>>
            /\ attempt' = 1
            /\ pc' = "loop"
            /\ UNCHANGED <<response, result>>
    /\ UNCHANGED <<article_data, clientLog, callerState>>

\* an iteration whose retry prompt holds the latest error description only
GroupSend_LastErrorOnly ==
    /\ stage \in {"agent.group_articles", "client.group_articles"}
    /\ pc = "loop"
    /\ attempt <= max_retries
    /\ messages' = IF attempt > 1 /\ previous_errors # <<>>
                   THEN <<SystemMessage("ARTICLE_GROUPING_RETRY_PROMPT",
                                        <<previous_errors[Len(previous_errors)]>>)>>
                   ELSE messages
    /\ requests' = Append(requests,
                     [response_format |-> ResponseFormat, messages |-> messages'])
    /\ pc' = "await"
    /\ UNCHANGED <<article_data, attempt, use_schema_format, previous_errors, response,
                   sleeps, outcomes, result, callerState>>

\* an iteration that appends the retry prompt to the message list
GroupSend_Appends ==
    /\ stage \in {"agent.group_articles", "client.group_articles"}
    /\ pc = "loop"
    /\ attempt <= max_retries
    /\ messages' = IF attempt > 1 /\ previous_errors # <<>>
                   THEN Append(messages,
                               SystemMessage("ARTICLE_GROUPING_RETRY_PROMPT", previous_errors))
                   ELSE messages
    /\ requests' = Append(requests,
                     [response_format |-> ResponseFormat, messages |-> messages'])
    /\ pc' = "await"
    /\ UNCHANGED <<article_data, attempt, use_schema_format, previous_errors, response,
                   sleeps, outcomes, result, callerState>>

\* one iteration up to the completion request
GroupSend ==
    /\ stage \in {"agent.group_articles", "client.group_articles"}
    /\ pc = "loop"
    /\ attempt <= max_retries
    /\ messages' = IF attempt > 1 /\ previous_errors # <<>>
                   THEN <<SystemMessage("ARTICLE_GROUPING_RETRY_PROMPT", previous_errors)>>
                   ELSE messages
    /\ requests' = Append(requests,
                     [response_format |-> ResponseFormat, messages |-> messages'])
    /\ pc' = "await"
    /\ UNCHANGED <<article_data, attempt, use_schema_format, previous_errors, response,
                   sleeps, outcomes, result, callerState>>

\* the for loop ends without a return statement having run
GroupLoopEnds ==
    /\ stage \in {"agent.group_articles", "client.group_articles"}
    /\ pc = "loop"
    /\ attempt > max_retries
    /\ result' = NoneValue
    /\ pc' = "client_return"
    /\ UNCHANGED <<article_data, clientLocals, clientLog, callerState>>

\* the retry test off by one: "attempt <= self.max_retries"
GroupRetryOrGiveUp_OffByOne ==
    IF attempt <= max_retries
    THEN /\ sleeps' = Append(sleeps, BackoffDelay(attempt))
         /\ attempt' = attempt + 1
         /\ pc' = "loop"
         /\ UNCHANGED result
    ELSE /\ result' = CreateEmptyResult
         /\ pc' = "client_return"
         /\ UNCHANGED <<sleeps, attempt>>

\* "if attempt < self.max_retries: sleep, continue; else: return the empty result"
GroupRetryOrGiveUp ==
    IF attempt < max_retries
    THEN /\ sleeps' = Append(sleeps, BackoffDelay(attempt))
         /\ attempt' = attempt + 1
         /\ pc' = "loop"
         /\ UNCHANGED result
    ELSE /\ result' = CreateEmptyResult
         /\ pc' = "client_return"
         /\ UNCHANGED <<sleeps, attempt>>

\* a schema rejection answered with a json_object request within the same
\* attempt
GroupSchemaRejected_SameAttempt ==
    /\ stage \in {"agent.group_articles", "client.group_articles"}
    /\ pc = "await"
    /\ use_schema_format
    /\ use_schema_format' = FALSE
    /\ attempt' = attempt
    /\ pc' = "loop"
    /\ outcomes' = Append(outcomes, "schema_rejected")
    /\ downgraded' = TRUE
    /\ UNCHANGED <<article_data, previous_errors, messages, response, requests,
                   sleeps, result, callerArgs>>

\* openai.BadRequestError on the json_schema request
GroupSchemaRejected ==
    /\ stage \in {"agent.group_articles", "client.group_articles"}
    /\ pc = "await"
    /\ use_schema_format
    /\ use_schema_format' = FALSE
    /\ attempt' = attempt + 1
    /\ pc' = "loop"
    /\ outcomes' = Append(outcomes, "schema_rejected")
    /\ downgraded' = TRUE
    /\ UNCHANGED <<article_data, previous_errors, messages, response, requests,
                   sleeps, result, callerArgs>>

\* a rate-limit handler that records an error description, as the handler
\* of the other exceptions does
GroupRateLimited_RecordsError ==
    /\ stage \in {"agent.group_articles", "client.group_articles"}
    /\ pc = "await"
    /\ outcomes' = Append(outcomes, "rate_limited")
    /\ previous_errors' = Append(previous_errors, ErrorEntry("api_error", <<>>))
    /\ GroupRetryOrGiveUp
    /\ UNCHANGED <<article_data, use_schema_format, messages,
                   response, requests, callerState>>

\* openai.RateLimitError
GroupRateLimited ==
    /\ stage \in {"agent.group_articles", "client.group_articles"}
    /\ pc = "await"
    /\ outcomes' = Append(outcomes, "rate_limited")
    /\ GroupRetryOrGiveUp
    /\ UNCHANGED <<article_data, use_schema_format, previous_errors, messages,
                   response, requests, callerState>>

\* a handler that lets the exception of the completion call escape
GroupApiError_Propagates ==
    /\ stage \in {"agent.group_articles", "client.group_articles"}
    /\ pc = "await"
    /\ outcomes' = Append(outcomes, "api_error")
    /\ result' = Raised("APIConnectionError")
    /\ pc' = "client_return"
    /\ UNCHANGED <<article_data, clientLocals, requests, sleeps, callerState>>

\* any other exception of the completion call (authentication, connectivity)
GroupApiError ==
    /\ stage \in {"agent.group_articles", "client.group_articles"}
    /\ pc = "await"
    /\ outcomes' = Append(outcomes, "api_error")
    /\ previous_errors' = Append(previous_errors, ErrorEntry("api_error", <<>>))
    /\ GroupRetryOrGiveUp
    /\ UNCHANGED <<article_data, use_schema_format, messages, response, requests,
                   callerState>>

\* the provider answers with a body
GroupResponds ==
    /\ stage \in {"agent.group_articles", "client.group_articles"}
    /\ pc = "await"
    /\ \E body \in GroupBodies[Len(article_data)] : response' = body
    /\ pc' = "validate"
    /\ UNCHANGED <<article_data, attempt, use_schema_format, previous_errors, messages,
                   clientLog, result, callerState>>

\* json.loads, the validation passes and the assembly of the result
GroupValidate ==
    /\ stage \in {"agent.group_articles", "client.group_articles"}
    /\ pc = "validate"
    /\ LET error == ValidateGroups(response, article_data)
       IN IF error = NoError
          THEN /\ result' = ArticleGroupResult(AssembleGroups(response.groups))
               /\ pc' = "client_return"
               /\ outcomes' = Append(outcomes, "accepted")
               /\ UNCHANGED <<previous_errors, sleeps, attempt>>
          ELSE /\ previous_errors' = Append(previous_errors, error)
               /\ outcomes' = Append(outcomes, "rejected")
               /\ GroupRetryOrGiveUp
    /\ response' = NoBody
    /\ UNCHANGED <<article_data, use_schema_format, messages, requests, callerState>>

\* ----------------------------------------------- categorization: the agent
\* ArticleGrouperAgent.group_articles up to the call of the completion client
AgentGroupArticles ==
    /\ stage = "agent.group_articles"
    /\ pc = "start"
    /\ IF articles = <<>>
       THEN /\ agent_result' = ArticleGroupResult(<<>>)
            /\ pc' = "done"
            /\ UNCHANGED article_data
       ELSE /\ article_data' = [i \in 1..Len(articles) |-> IdMapping(articles)[articles[i]]]
            /\ pc' = "client_call"
            /\ UNCHANGED agent_result
    /\ UNCHANGED <<stage, max_retries, articles, assigned_category, clientLocals,
                   clientLog, result, bulletVars, extractVars, bullet_points_text, elsewhere,
                   downgraded>>

\* ArticleGrouperAgent.group_articles after the completion client returned
AgentRemap ==
    /\ stage = "agent.group_articles"
    /\ pc = "client_return"
    /\ IF result.kind = "None"
       THEN \* result.groups on None
            /\ agent_result' = Raised("AttributeError")
            /\ UNCHANGED assigned_category
       ELSE LET remapped_groups == RemappedGroups(result.groups, ReverseMapping(articles))
            IN /\ assigned_category' =
                     UpdateArticleCategories(assigned_category,
                                             ArticleCategories(remapped_groups))
               /\ agent_result' = ArticleGroupResult(remapped_groups)
    /\ pc' = "done"
    /\ UNCHANGED <<stage, max_retries, articles, article_data, clientLocals, clientLog,
                   result, bulletVars, extractVars, bullet_points_text, elsewhere, downgraded>>

GroupNext ==
    \/ ClientEntry
    \/ GroupArticlesBegin
    \/ GroupSend
    \/ GroupLoopEnds
    \/ GroupSchemaRejected
    \/ GroupRateLimited
    \/ GroupApiError
    \/ GroupResponds
    \/ GroupValidate
    \/ AgentGroupArticles
    \/ AgentRemap

\* ------------------------------------- bullet points: the completion client
BulletStage == stage = "agent.generate_bullet_points"

Category == articles_by_category[category_index]

EmptyBulletPointResult == BulletPointResult(<<>>, Category)

bulletArgs == <<stage, max_retries, groupVars, agent_result, bulletVars, extractVars,
                bullet_points_text, elsewhere>>
bulletFrame == <<bulletArgs, downgraded>>

\* a call that starts in the mode an earlier call of the instance ended in,
\* as if use_schema_format were a field of the client
GenerateBulletPointsBegin_KeepsMode ==
    /\ BulletStage
    /\ pc = "client_call"
    /\ messages' = <<[role |-> "system", prompt |-> "BULLET_POINT_GENERATION_PROMPT",
                      error_feedback |-> <<>>]>>
    /\ previous_errors' = <<>>
    /\ use_schema_format' = ~downgraded
    /\ attempt' = 1
    /\ requests' = <<>>
    /\ sleeps' = <<>>
    /\ outcomes' = <<>>
    /\ result' = NotReturned
    /\ pc' = "loop"
    /\ UNCHANGED <<response, bulletFrame>>

\* OpenAIClient.generate_bullet_points up to the loop; the articles_text the
\* agent builds from a non-empty article list is never blank
GenerateBulletPointsBegin ==
    /\ BulletStage
    /\ pc = "client_call"
    /\ messages' = <<[role |-> "system", prompt |-> "BULLET_POINT_GENERATION_PROMPT",
                      error_feedback |-> <<>>]>>
    /\ previous_errors' = <<>>
    /\ use_schema_format' = TRUE
    /\ attempt' = 1
    /\ requests' = <<>>
    /\ sleeps' = <<>>
    /\ outcomes' = <<>>
    /\ result' = NotReturned
    /\ pc' = "loop"
    /\ UNCHANGED <<response, bulletFrame>>

\* an iteration that sets use_schema_format anew, as if the flag were
\* initialised inside the loop
BulletSend_FormatPerAttempt ==
    /\ BulletStage
    /\ pc = "loop"
    /\ attempt <= max_retries
    /\ messages' = IF attempt > 1 /\ previous_errors # <<>>
                   THEN Append(messages,
                               [role |-> "user", prompt |-> "BULLET_POINT_RETRY_PROMPT",
                                error_feedback |-> previous_errors])
                   ELSE messages
    /\ use_schema_format' = TRUE
    /\ requests' = Append(requests,
                     [response_format |-> "json_schema", messages |-> messages'])
    /\ pc' = "await"
    /\ UNCHANGED <<attempt, previous_errors, response, sleeps,
                   outcomes, result, bulletFrame>>

\* one iteration up to the completion request
BulletSend ==
    /\ BulletStage
    /\ pc = "loop"
    /\ attempt <= max_retries
    /\ messages' = IF attempt > 1 /\ previous_errors # <<>>
                   THEN Append(messages,
                               [role |-> "user", prompt |-> "BULLET_POINT_RETRY_PROMPT",
                                error_feedback |-> previous_errors])
                   ELSE messages
    /\ requests' = Append(requests,
                     [response_format |-> ResponseFormat, messages |-> messages'])
    /\ pc' = "await"
    /\ UNCHANGED <<attempt, use_schema_format, previous_errors, response, sleeps,
                   outcomes, result, bulletFrame>>

\* the loop is over: "If we get here, all attempts failed"
BulletLoopEnds ==
    /\ BulletStage
    /\ pc = "loop"
    /\ attempt > max_retries
    /\ result' = EmptyBulletPointResult
    /\ pc' = "client_return"
    /\ UNCHANGED <<clientLocals, clientLog, bulletFrame>>

\* "if attempt < self.max_retries: sleep, continue", and the end of the loop
\* body otherwise
BulletSleepAndContinue ==
    /\ sleeps' = IF attempt < max_retries
                 THEN Append(sleeps, BackoffDelay(attempt)) ELSE sleeps
    /\ attempt' = attempt + 1
    /\ pc' = "loop"

\* a schema rejection handled like the other API errors: an error
\* description is recorded and the call waits
BulletSchemaRejected_RecordsError ==
    /\ BulletStage
    /\ pc = "await"
    /\ use_schema_format
    /\ use_schema_format' = FALSE
    /\ previous_errors' = Append(previous_errors, ErrorEntry("api_error", <<>>))
    /\ BulletSleepAndContinue
    /\ outcomes' = Append(outcomes, "schema_rejected")
    /\ downgraded' = TRUE
    /\ UNCHANGED <<messages, response, requests, result, bulletArgs>>

\* openai.BadRequestError on the json_schema request
BulletSchemaRejected ==
    /\ BulletStage
    /\ pc = "await"
    /\ use_schema_format
    /\ use_schema_format' = FALSE
    /\ attempt' = attempt + 1
    /\ pc' = "loop"
    /\ outcomes' = Append(outcomes, "schema_rejected")
    /\ downgraded' = TRUE
    /\ UNCHANGED <<previous_errors, messages, response, requests, sleeps, result,
                   bulletArgs>>

\* any other openai.OpenAIError: a rate limit, an authentication or a
\* connectivity failure
BulletApiError ==
    /\ BulletStage
    /\ pc = "await"
    /\ \E kind \in {"rate_limited", "api_error"} : outcomes' = Append(outcomes, kind)
    /\ previous_errors' = Append(previous_errors, ErrorEntry("api_error", <<>>))
    /\ BulletSleepAndContinue
    /\ UNCHANGED <<use_schema_format, messages, response, requests, result, bulletFrame>>

\* the provider answers with a body
BulletResponds ==
    /\ BulletStage
    /\ pc = "await"
    /\ \E body \in BulletBodies : response' = body
    /\ pc' = "validate"
    /\ UNCHANGED <<attempt, use_schema_format, previous_errors, messages, clientLog,
                   result, bulletFrame>>

\* json.loads and the construction of the bullet points
BulletValidate ==
    /\ BulletStage
    /\ pc = "validate"
    /\ CASE response.kind = "text" ->
              /\ previous_errors' = Append(previous_errors, ErrorEntry("json_decode", <<>>))
              /\ outcomes' = Append(outcomes, "rejected")
              /\ BulletSleepAndContinue
              /\ UNCHANGED result
         [] response.kind \in {"scalar", "bad_shape"} ->
              \* TypeError: neither json.JSONDecodeError nor openai.OpenAIError
              /\ result' = Raised("TypeError")
              /\ pc' = "client_return"
              /\ outcomes' = Append(outcomes, "raised")
              /\ UNCHANGED <<previous_errors, sleeps, attempt>>
         [] response.kind = "no_key" ->
              /\ previous_errors' = Append(previous_errors, ErrorEntry("no_bullet_points", <<>>))
              /\ outcomes' = Append(outcomes, "rejected")
              /\ IF attempt < max_retries
                 THEN /\ BulletSleepAndContinue
                      /\ UNCHANGED result
                 ELSE /\ result' = EmptyBulletPointResult
                      /\ pc' = "client_return"
                      /\ UNCHANGED <<sleeps, attempt>>
         [] OTHER ->
              LET bullet_points == ValidItems(response.bullet_points)
              IN /\ previous_errors' = previous_errors \o ItemErrors(response.bullet_points)
                 /\ IF bullet_points = <<>> /\ attempt < max_retries
                    THEN /\ BulletSleepAndContinue
                         /\ outcomes' = Append(outcomes, "rejected")
                         /\ UNCHANGED result
                    ELSE /\ result' = BulletPointResult(bullet_points, Category)
                         /\ pc' = "client_return"
                         /\ outcomes' = Append(outcomes, "accepted")
                         /\ UNCHANGED <<sleeps, attempt>>
    /\ response' = NoBody
    /\ UNCHANGED <<use_schema_format, messages, requests, bulletFrame>>

\* ----------------------------------------------- bullet points: the agent
\* BulletPointGeneratorAgent.generate_bullet_points up to the first category
AgentGenerateBulletPoints ==
    /\ BulletStage
    /\ pc = "start"
    /\ IF articles_by_category = <<>>
       THEN /\ agent_result' = [kind |-> "dict", results |-> <<>>]
            /\ pc' = "done"
            /\ UNCHANGED category_index
       ELSE /\ category_index' = 1
            /\ pc' = "client_call"
            /\ UNCHANGED agent_result
    /\ UNCHANGED <<stage, max_retries, groupVars, clientLocals, clientLog, result,
                   articles_by_category, results, error_message, dry_run,
                   bullet_points_table, generation_logs, extractVars,
                   bullet_points_text, elsewhere, downgraded>>

\* lines 138-182: the metrics row and the return
AgentFinish(final_results, message) ==
    /\ generation_logs' = IF dry_run THEN generation_logs
                          ELSE Append(generation_logs,
                                      [categories_processed |-> Len(final_results),
                                       error_message |-> message])
    /\ error_message' = message
    /\ agent_result' = [kind |-> "dict", results |-> final_results]
    /\ pc' = "done"

\* the agent's loop body after the completion client returned (lines 87-132),
\* and the rest of the method when the loop ends or an exception ends it
AgentAfterCategory ==
    /\ BulletStage
    /\ pc = "client_return"
    /\ IF result.kind = "raised"
       THEN \* except Exception (line 134)
            /\ AgentFinish(results, result.error)
            /\ UNCHANGED <<results, bullet_points_table, category_index>>
       ELSE /\ results' = Append(results, [category |-> Category, result |-> result])
            /\ IF result.bullet_points = <<>>
               THEN \* line 125 divides by len(result.bullet_points)
                    /\ AgentFinish(results', "ZeroDivisionError")
                    /\ UNCHANGED <<bullet_points_table, category_index>>
               ELSE /\ bullet_points_table' =
                          IF dry_run THEN bullet_points_table
                          ELSE Append(bullet_points_table, result)
                    /\ IF category_index < Len(articles_by_category)
                       THEN /\ category_index' = category_index + 1
                            /\ pc' = "client_call"
                            /\ UNCHANGED <<agent_result, error_message, generation_logs>>
                       ELSE /\ AgentFinish(results', error_message)
                            /\ UNCHANGED category_index
    /\ UNCHANGED <<stage, max_retries, groupVars, clientLocals, clientLog, result,
                   articles_by_category, dry_run, extractVars, bullet_points_text, elsewhere,
                   downgraded>>

BulletNext ==
    \/ GenerateBulletPointsBegin
    \/ BulletSend
    \/ BulletLoopEnds
    \/ BulletSchemaRejected
    \/ BulletApiError
    \/ BulletResponds
    \/ BulletValidate
    \/ AgentGenerateBulletPoints
    \/ AgentAfterCategory

\* ---------------------------------------- extraction: the completion client
ExtractStage == stage = "client.extract_articles"

extractFrame == <<stage, max_retries, groupVars, agent_result, bulletVars,
                  use_schema_format, previous_errors, messages, bullet_points_text, elsewhere,
                  downgraded>>

\* OpenAIClient.extract_articles up to the loop
ExtractArticlesBegin ==
    /\ ExtractStage
    /\ pc = "start"
    /\ attempt' = 0
    /\ last_error' = NoLastError
    /\ backoff_time' = RetryDelay
    /\ pc' = "loop"
    /\ UNCHANGED <<response, clientLog, result, extractFrame>>

\* an iteration that goes straight to the json_object request once a
\* json_object request has been made in the call
ExtractSend_RemembersFallback ==
    /\ ExtractStage
    /\ pc = "loop"
    /\ attempt < max_retries
    /\ attempt' = attempt + 1
    /\ LET fell_back == \E k \in 1..Len(requests) :
                            requests[k].response_format = "json_object"
       IN /\ requests' = Append(requests,
                            [response_format |-> IF fell_back THEN "json_object"
                                                 ELSE "json_schema",
                             messages |-> <<"ARTICLE_EXTRACTION_PROMPT", "text">>])
          /\ pc' = IF fell_back THEN "await_object" ELSE "await_schema"
    /\ UNCHANGED <<response, sleeps, outcomes, result, backoff_time, last_error,
                   extractFrame>>

\* one iteration up to the json_schema request; for max_retries >= 1 the loop
\* is only ever re-entered with attempts < max_retries
ExtractSend ==
    /\ ExtractStage
    /\ pc = "loop"
    /\ attempt < max_retries
    /\ attempt' = attempt + 1
    /\ requests' = Append(requests,
                     [response_format |-> "json_schema",
                      messages |-> <<"ARTICLE_EXTRACTION_PROMPT", "text">>])
    /\ pc' = "await_schema"
    /\ UNCHANGED <<response, sleeps, outcomes, result, backoff_time, last_error,
                   extractFrame>>

\* a handler that waits before it raises on the last attempt
ExtractRetryOrRaise_SleepsBeforeRaise ==
    IF attempt < max_retries
    THEN /\ sleeps' = Append(sleeps, backoff_time)
         /\ backoff_time' = backoff_time * 2
         /\ pc' = "loop"
         /\ UNCHANGED result
    ELSE /\ sleeps' = Append(sleeps, backoff_time)
         /\ result' = Raised("Exception")
         /\ pc' = "done"
         /\ UNCHANGED backoff_time

\* "if attempts < self.max_retries: sleep(backoff_time), double it, continue;
\* else: raise Exception(last_error)"; the raise inside the try block is
\* caught by the outer handler, which raises again on the last attempt
ExtractRetryOrRaise ==
    IF attempt < max_retries
    THEN /\ sleeps' = Append(sleeps, backoff_time)
         /\ backoff_time' = backoff_time * 2
         /\ pc' = "loop"
         /\ UNCHANGED result
    ELSE /\ result' = Raised("Exception")
         /\ pc' = "done"
         /\ UNCHANGED <<sleeps, backoff_time>>

\* openai.RateLimitError on either request
ExtractRateLimited ==
    /\ ExtractStage
    /\ pc \in {"await_schema", "await_object"}
    /\ outcomes' = Append(outcomes, "rate_limited")
    /\ last_error' = "Rate limit exceeded"
    /\ ExtractRetryOrRaise
    /\ UNCHANGED <<attempt, response, requests, extractFrame>>

\* any other exception on the json_schema request: the json_object request
\* follows within the same attempt
ExtractSchemaFails ==
    /\ ExtractStage
    /\ pc = "await_schema"
    /\ \E kind \in {"schema_rejected", "api_error"} : outcomes' = Append(outcomes, kind)
    /\ requests' = Append(requests,
                     [response_format |-> "json_object",
                      messages |-> <<"ARTICLE_EXTRACTION_PROMPT", "text">>])
    /\ pc' = "await_object"
    /\ UNCHANGED <<attempt, response, sleeps, result, backoff_time, last_error,
                   extractFrame>>

\* any other exception on the json_object request reaches the outer handler
ExtractObjectFails ==
    /\ ExtractStage
    /\ pc = "await_object"
    /\ outcomes' = Append(outcomes, "api_error")
    /\ last_error' = "Failed to extract articles"
    /\ ExtractRetryOrRaise
    /\ UNCHANGED <<attempt, response, requests, extractFrame>>

\* the provider answers with a body
ExtractResponds ==
    /\ ExtractStage
    /\ pc \in {"await_schema", "await_object"}
    /\ \E body \in ExtractBodies : response' = body
    /\ pc' = "validate"
    /\ UNCHANGED <<attempt, clientLog, result, backoff_time, last_error, extractFrame>>

\* a validation that takes a missing "articles" key for a failed attempt
ExtractValidate_MissingKeyFails ==
    /\ ExtractStage
    /\ pc = "validate"
    /\ CASE response.kind = "text" ->
              /\ last_error' = "Failed to parse JSON response"
              /\ outcomes' = Append(outcomes, "rejected")
              /\ ExtractRetryOrRaise
         [] response.kind \in {"scalar", "no_key"} ->
              /\ last_error' = "Failed to extract articles"
              /\ outcomes' = Append(outcomes, "rejected")
              /\ ExtractRetryOrRaise
         [] OTHER ->
              /\ result' = ExtractionResult(response.articles)
              /\ pc' = "done"
              /\ outcomes' = Append(outcomes, "accepted")
              /\ UNCHANGED <<sleeps, backoff_time, last_error>>
    /\ response' = NoBody
    /\ UNCHANGED <<attempt, requests, extractFrame>>

\* json.loads and the "articles" check
ExtractValidate ==
    /\ ExtractStage
    /\ pc = "validate"
    /\ CASE response.kind = "text" ->
              /\ last_error' = "Failed to parse JSON response"
              /\ outcomes' = Append(outcomes, "rejected")
              /\ ExtractRetryOrRaise
         [] response.kind = "scalar" ->
              \* TypeError on the "in" test, caught by the outer handler
              /\ last_error' = "Failed to extract articles"
              /\ outcomes' = Append(outcomes, "rejected")
              /\ ExtractRetryOrRaise
         [] response.kind = "no_key" ->
              /\ result' = ExtractionResult(<<>>)
              /\ pc' = "done"
              /\ outcomes' = Append(outcomes, "accepted")
              /\ UNCHANGED <<sleeps, backoff_time, last_error>>
         [] OTHER ->
              /\ result' = ExtractionResult(response.articles)
              /\ pc' = "done"
              /\ outcomes' = Append(outcomes, "accepted")
              /\ UNCHANGED <<sleeps, backoff_time, last_error>>
    /\ response' = NoBody
    /\ UNCHANGED <<attempt, requests, extractFrame>>

ExtractNext ==
    \/ ExtractArticlesBegin
    \/ ExtractSend
    \/ ExtractRateLimited
    \/ ExtractSchemaFails
    \/ ExtractObjectFails
    \/ ExtractResponds
    \/ ExtractValidate

\* ------------------------------------- topic summary: the completion client
TopicStage == stage = "client.generate_topic_summary"

Topic == "Computer Vision"

EmptyTopicSummaryResult == TopicSummaryResult("", Topic)

topicArgs == <<stage, max_retries, groupVars, agent_result, bulletVars, extractVars,
               bullet_points_text, elsewhere>>
topicFrame == <<topicArgs, downgraded>>

\* OpenAIClient.generate_topic_summary up to the loop
GenerateTopicSummaryBegin ==
    /\ TopicStage
    /\ pc = "start"
    /\ IF bullet_points_text = ""
       THEN /\ result' = EmptyTopicSummaryResult
            /\ pc' = "done"
            /\ UNCHANGED clientLocals
       ELSE /\ messages' = <<[role |-> "system", prompt |-> "TOPIC_SUMMARY_GENERATION_PROMPT",
                              error_feedback |-> <<>>]>>
            /\ previous_errors' = <<>>
            /\ use_schema_format' = TRUE
            /\ attempt' = 1
            /\ pc' = "loop"
            /\ UNCHANGED <<response, result>>
    /\ UNCHANGED <<clientLog, topicFrame>>

\* one iteration up to the completion request
TopicSend ==
    /\ TopicStage
    /\ pc = "loop"
    /\ attempt <= max_retries
    /\ messages' = IF attempt > 1 /\ previous_errors # <<>>
                   THEN Append(messages,
                               [role |-> "user", prompt |-> "TOPIC_SUMMARY_RETRY_PROMPT",
                                error_feedback |-> previous_errors])
                   ELSE messages
    /\ requests' = Append(requests,
                     [response_format |-> ResponseFormat, messages |-> messages'])
    /\ pc' = "await"
    /\ UNCHANGED <<attempt, use_schema_format, previous_errors, response, sleeps,
                   outcomes, result, topicFrame>>

\* the loop is over: "If we get here, all attempts failed"
TopicLoopEnds ==
    /\ TopicStage
    /\ pc = "loop"
    /\ attempt > max_retries
    /\ result' = EmptyTopicSummaryResult
    /\ pc' = "done"
    /\ UNCHANGED <<clientLocals, clientLog, topicFrame>>

\* "if attempt < self.max_retries: sleep, continue", and the end of the loop
\* body otherwise
TopicSleepAndContinue ==
    /\ sleeps' = IF attempt < max_retries
                 THEN Append(sleeps, BackoffDelay(attempt)) ELSE sleeps
    /\ attempt' = attempt + 1
    /\ pc' = "loop"

\* openai.BadRequestError on the json_schema request
TopicSchemaRejected ==
    /\ TopicStage
    /\ pc = "await"
    /\ use_schema_format
    /\ use_schema_format' = FALSE
    /\ attempt' = attempt + 1
    /\ pc' = "loop"
    /\ outcomes' = Append(outcomes, "schema_rejected")
    /\ downgraded' = TRUE
    /\ UNCHANGED <<previous_errors, messages, response, requests, sleeps, result,
                   topicArgs>>

\* any other openai.OpenAIError: a rate limit, an authentication or a
\* connectivity failure
TopicApiError ==
    /\ TopicStage
    /\ pc = "await"
    /\ \E kind \in {"rate_limited", "api_error"} : outcomes' = Append(outcomes, kind)
    /\ previous_errors' = Append(previous_errors, ErrorEntry("api_error", <<>>))
    /\ TopicSleepAndContinue
    /\ UNCHANGED <<use_schema_format, messages, response, requests, result, topicFrame>>

\* the provider answers with a body
TopicResponds ==
    /\ TopicStage
    /\ pc = "await"
    /\ \E body \in TopicBodies : response' = body
    /\ pc' = "validate"
    /\ UNCHANGED <<attempt, use_schema_format, previous_errors, messages, clientLog,
                   result, topicFrame>>

\* json.loads and the "summary" checks
TopicValidate ==
    /\ TopicStage
    /\ pc = "validate"
    /\ CASE response.kind = "text" ->
              /\ previous_errors' = Append(previous_errors, ErrorEntry("json_decode", <<>>))
              /\ outcomes' = Append(outcomes, "rejected")
              /\ TopicSleepAndContinue
              /\ UNCHANGED result
         [] response.kind = "scalar" ->
              \* TypeError: neither json.JSONDecodeError nor openai.OpenAIError
              /\ result' = Raised("TypeError")
              /\ pc' = "done"
              /\ outcomes' = Append(outcomes, "raised")
              /\ UNCHANGED <<previous_errors, sleeps, attempt>>
         [] response.kind = "no_key" ->
              /\ previous_errors' = Append(previous_errors, ErrorEntry("no_summary", <<>>))
              /\ outcomes' = Append(outcomes, "rejected")
              /\ IF attempt < max_retries
                 THEN /\ TopicSleepAndContinue
                      /\ UNCHANGED result
                 ELSE /\ result' = EmptyTopicSummaryResult
                      /\ pc' = "done"
                      /\ UNCHANGED <<sleeps, attempt>>
         [] OTHER ->
              IF response.summary = "" /\ attempt < max_retries
              THEN /\ TopicSleepAndContinue
                   /\ outcomes' = Append(outcomes, "rejected")
                   /\ UNCHANGED <<previous_errors, result>>
              ELSE /\ result' = TopicSummaryResult(response.summary, Topic)
                   /\ pc' = "done"
                   /\ outcomes' = Append(outcomes, "accepted")
                   /\ UNCHANGED <<previous_errors, sleeps, attempt>>
    /\ response' = NoBody
    /\ UNCHANGED <<use_schema_format, messages, requests, topicFrame>>

TopicNext ==
    \/ GenerateTopicSummaryBegin
    \/ TopicSend
    \/ TopicLoopEnds
    \/ TopicSchemaRejected
    \/ TopicApiError
    \/ TopicResponds
    \/ TopicValidate

Next == GroupNext \/ BulletNext \/ ExtractNext \/ TopicNext

Spec == Init /\ [][Next]_vars

\* ------------------------------------------------------------------------
\* One more attempt than in Spec, on small inputs: the calls of the three
\* clients that keep previous_errors across attempts, with max_retries one
\* above MaxRetriesBound, at most one article and at most one category.
RetryInit ==
    /\ max_retries = MaxRetriesBound + 1
    /\ ClientIdle
    /\ ElsewhereIdle
    /\ ExtractIdle
    /\ \/ /\ stage \in {"agent.group_articles", "client.group_articles"}
          /\ articles \in {a \in (IF stage = "agent.group_articles"
                                  THEN AgentArticleLists ELSE ClientArticleLists) :
                               Len(a) <= 1}
          /\ assigned_category = [a \in Range(articles) |-> Unassigned]
          /\ article_data = <<>>
          /\ BulletIdle
          /\ TopicIdle
       \/ /\ stage = "agent.generate_bullet_points"
          /\ articles_by_category \in {c \in CategoryLists : Len(c) <= 1}
          /\ dry_run \in BOOLEAN
          /\ category_index = 0
          /\ results = <<>>
          /\ error_message = "None"
          /\ bullet_points_table = <<>>
          /\ generation_logs = <<>>
          /\ GroupIdle
          /\ TopicIdle
       \/ /\ stage = "client.generate_topic_summary"
          /\ bullet_points_text \in {"", "bullet points"}
          /\ GroupIdle
          /\ BulletIdle
       \/ /\ stage = "client.extract_articles"
          /\ GroupIdle
          /\ BulletIdle
          /\ TopicIdle

RetryNext == GroupNext \/ BulletNext \/ TopicNext \/ ExtractNext

SpecRetry == RetryInit /\ [][RetryNext]_vars

\* ====================================================================
\* Properties
\* ====================================================================
Last(seq) == seq[Len(seq)]

GroupStages == {"agent.group_articles", "client.group_articles"}

\* OpenAIClient.group_articles has handed a value back to its caller
GroupReturned ==
    /\ stage \in GroupStages
    /\ pc \in {"client_return", "done"}
    /\ result # NotReturned

\* the number of times x occurs in seq
Count(seq, x) == Cardinality({i \in 1..Len(seq) : seq[i] = x})

IsPermutation(s, t) ==
    /\ Len(s) = Len(t)
    /\ \A x \in Range(s) \cup Range(t) : Count(s, x) = Count(t, x)

\* the response under validation references an id that is not a valid id
ReferencesInvalidId ==
    \E id \in Range(Flatten(response.groups)) : id \notin Range(article_data)

\* the response under validation holds some id more than once
HoldsIdTwice ==
    \E id \in Range(Flatten(response.groups)) : Count(Flatten(response.groups), id) > 1

\* a group response is being validated in this step
ValidatingGroups ==
    /\ stage \in GroupStages
    /\ pc = "validate"
    /\ response.kind = "ok"

\* --------------------------------------------------------------------
\* C1: partition completeness.  Whenever OpenAIClient.group_articles
\* accepted a response, the ids of the groups it returns are a permutation
\* of the input ids, whatever titles the response gave its groups.
C1_PartitionCompleteness ==
    (GroupReturned /\ outcomes # <<>> /\ Last(outcomes) = "accepted")
        => /\ result.kind = "ArticleGroupResult"
           /\ IsPermutation(Flatten(result.groups), article_data)

\* --------------------------------------------------------------------
\* C2: for every max_retries >= 1 and every sequence of provider outcomes,
\* what OpenAIClient.group_articles hands back is an ArticleGroupResult:
\* never None, never an exception.
C2_AlwaysAnArticleGroupResult ==
    GroupReturned => result.kind = "ArticleGroupResult"

\* --------------------------------------------------------------------
\* C3: in none of the three stages does a response body make the call
\* raise: when the last thing that happened to a call is that a body was
\* processed, the call has not raised.
C3_NoBodyMakesTheCallRaise ==
    (outcomes # <<>> /\ Last(outcomes) \in {"rejected", "raised", "accepted"})
        => result.kind # "raised"

\* --------------------------------------------------------------------
\* C4: exhaustion.  While every attempt of group_articles so far got a
\* response that failed validation, at most max_retries requests were
\* issued; after max_retries such attempts the call has returned, it has
\* issued exactly max_retries requests, and what it returned is a result
\* whose groups are all empty (no exception, no None).
C4_Exhaustion ==
    (stage \in GroupStages /\ outcomes # <<>>
       /\ \A i \in 1..Len(outcomes) : outcomes[i] = "rejected")
        => /\ Len(requests) <= max_retries
           /\ Len(outcomes) = max_retries <=> GroupReturned
           /\ GroupReturned =>
                /\ Len(requests) = max_retries
                /\ result.kind = "ArticleGroupResult"
                /\ \A i \in 1..Len(result.groups) : result.groups[i].article_ids = <<>>

\* two attempts, both rejected, and the call has returned
C4_Witness ==
    /\ GroupReturned
    /\ max_retries = 2
    /\ outcomes = <<"rejected", "rejected">>
    /\ Len(requests) = 2
    /\ result.kind = "ArticleGroupResult"

\* --------------------------------------------------------------------
\* group_articles returned after its last attempt failed
GroupExhausted ==
    /\ GroupReturned
    /\ outcomes # <<>>
    /\ Last(outcomes) \in {"rejected", "rate_limited", "api_error"}

\* C5: the result group_articles returns when the last attempt failed holds
\* exactly one group per configured category, in configured order, each
\* with no article ids and the synthesized "No articles were found"
\* summary, and no other group.
C5_DegradedResultContent ==
    GroupExhausted
        => /\ result.kind = "ArticleGroupResult"
           /\ Len(result.groups) = Len(Categories)
           /\ \A i \in 1..Len(Categories) :
                 /\ result.groups[i].title = Categories[i]
                 /\ result.groups[i].article_ids = <<>>
                 /\ result.groups[i].summary = <<"No articles were found for", Categories[i]>>

\* the degraded result was returned after two failed attempts
C5_Witness ==
    /\ GroupExhausted
    /\ Len(outcomes) = 2
    /\ Len(result.groups) = 2

TransportFailureStep ==
    /\ Len(outcomes') = Len(outcomes) + 1
    /\ Last(outcomes') = "api_error"

\* what each client does in the step that records a transport failure
C7_Step ==
    /\ (TransportFailureStep /\ stage \in GroupStages) =>
          IF attempt < max_retries
          THEN /\ sleeps' = Append(sleeps, BackoffDelay(attempt))
               /\ attempt' = attempt + 1
               /\ pc' = "loop"
               /\ result' = NotReturned
          ELSE /\ sleeps' = sleeps
               /\ pc' = "client_return"
               /\ result'.kind = "ArticleGroupResult"
               /\ \A i \in 1..Len(result'.groups) : result'.groups[i].article_ids = <<>>
    /\ (TransportFailureStep /\ BulletStage) =>
          /\ sleeps' = IF attempt < max_retries
                       THEN Append(sleeps, BackoffDelay(attempt)) ELSE sleeps
          /\ attempt' = attempt + 1
          /\ pc' = "loop"
          /\ result' = NotReturned
    /\ (BulletStage /\ pc = "loop" /\ attempt > max_retries) =>
          /\ result'.kind = "BulletPointResult"
          /\ result'.bullet_points = <<>>
          /\ requests' = requests
    /\ (TransportFailureStep /\ ExtractStage /\ pc = "await_schema") =>
          /\ sleeps' = sleeps
          /\ attempt' = attempt
          /\ Len(requests') = Len(requests) + 1
          /\ Last(requests').response_format = "json_object"
          /\ result' = NotReturned
    /\ (TransportFailureStep /\ ExtractStage /\ pc = "await_object") =>
          IF attempt < max_retries
          THEN /\ sleeps' = Append(sleeps, backoff_time)
               /\ pc' = "loop"
               /\ result' = NotReturned
          ELSE /\ sleeps' = sleeps
               /\ result'.kind = "raised"

C8_RemainingCategoriesProcessed ==
    (BulletStage /\ pc = "done"
       /\ \E j \in 1..Len(results) : results[j].result.bullet_points = <<>>)
        => \A i \in 1..Len(articles_by_category) :
              \E j \in 1..Len(agent_result.results) :
                 agent_result.results[j].category = articles_by_category[i]

\* --------------------------------------------------------------------
\* the results and the validation of one step of group_articles
C9_Step ==
    /\ (stage \in GroupStages /\ result'.kind = "ArticleGroupResult")
          => Range(Flatten(result'.groups)) \subseteq Range(article_data')
    /\ (stage \in GroupStages /\ agent_result'.kind = "ArticleGroupResult")
          => Range(Flatten(agent_result'.groups)) \subseteq Range(articles')
    /\ (ValidatingGroups /\ ReferencesInvalidId)
          => /\ Last(outcomes') = "rejected"
             /\ Len(previous_errors') = Len(previous_errors) + 1
             /\ Last(previous_errors').kind = "invalid_ids"
             /\ Range(Last(previous_errors').ids) \cap Range(article_data) = {}
             /\ Last(previous_errors').ids # <<>>

\* C9: no hallucinated identifiers.  Every id in a result of
\* OpenAIClient.group_articles is an id it was given, every id in a result
\* of ArticleGrouperAgent.group_articles is the id of an article it was
\* given, and a response that references an id outside the valid ids is
\* rejected with the invalid-id error.
C9_NoHallucinatedIds == [][C9_Step]_vars

\* a response with an invalid id was rejected, the next one was accepted,
\* and the agent returned both articles under their original ids
C9_Witness ==
    /\ stage = "agent.group_articles"
    /\ max_retries = 2
    /\ previous_errors # <<>>
    /\ previous_errors[1].kind = "invalid_ids"
    /\ pc = "done"
    /\ agent_result.kind = "ArticleGroupResult"
    /\ Len(Flatten(agent_result.groups)) = 2

\* --------------------------------------------------------------------
\* no id occurs twice in the result this step hands back
NoIdTwiceInResult ==
    (stage \in GroupStages /\ result'.kind = "ArticleGroupResult")
        => \A id \in Range(Flatten(result'.groups)) :
              Count(Flatten(result'.groups), id) = 1

\* every response that holds an id twice gets the duplicate error
C10_OriginalStep ==
    /\ NoIdTwiceInResult
    /\ (ValidatingGroups /\ HoldsIdTwice)
          => /\ Last(outcomes') = "rejected"
             /\ Last(previous_errors').kind = "duplicate_ids"

C10_AmendedStep ==
    /\ NoIdTwiceInResult
    /\ (ValidatingGroups /\ HoldsIdTwice)
          => /\ Last(outcomes') = "rejected"
             /\ Len(previous_errors') = Len(previous_errors) + 1
             /\ Last(previous_errors').kind =
                   IF ReferencesInvalidId THEN "invalid_ids" ELSE "duplicate_ids"
             /\ ~ReferencesInvalidId =>
                   /\ Last(previous_errors').ids # <<>>
                   /\ \A id \in Range(Last(previous_errors').ids) :
                         Count(Flatten(response.groups), id) > 1

HoldsUnknownTitle ==
    \E i \in 1..Len(response.groups) :
        \A c \in Range(Categories) : Lower(c) # Lower(response.groups[i].title)

\* the response under validation holds a group whose title is no configured
\* category but equals one up to letter case
HoldsCaseVariantTitle ==
    \E i \in 1..Len(response.groups) :
        /\ response.groups[i].title \notin Range(Categories)
        /\ \E c \in Range(Categories) : Lower(c) = Lower(response.groups[i].title)

\* a response with an unknown title is rejected, and retried while attempts remain
C11_Step ==
    (ValidatingGroups /\ HoldsUnknownTitle)
        => /\ Last(outcomes') = "rejected"
           /\ Len(previous_errors') = Len(previous_errors) + 1
           /\ attempt < max_retries => (pc' = "loop" /\ attempt' = attempt + 1)

\* C11: unknown category.  A response of group_articles that holds a group
\* whose title matches no configured category, not even case-insensitively,
\* is not accepted: an error is recorded for it and a retry follows while
\* attempts remain.
C11_UnknownCategoryRejected == [][C11_Step]_vars

\* --------------------------------------------------------------------
\* the configured category a title equals up to letter case
Canonical(title) == CHOOSE c \in Range(Categories) : Lower(c) = Lower(title)

\* group i of the response under validation is the only group of its
\* category, and its title differs from the category by letter case
CaseVariantGroup(i) ==
    /\ response.groups[i].title \notin Range(Categories)
    /\ \E c \in Range(Categories) : Lower(c) = Lower(response.groups[i].title)
    /\ \A j \in 1..Len(response.groups) :
          Lower(response.groups[j].title) = Lower(response.groups[i].title) => j = i

\* the validation step of a response that is a partition of the input ids:
\* the label causes no error and no retry, and the groups the agent builds
\* from the client's result hold the relabelled group under its category
C12_Step ==
    (/\ stage = "agent.group_articles"
     /\ ValidatingGroups
     /\ ValidateGroups(response, article_data) = NoError)
        => \A i \in 1..Len(response.groups) :
              CaseVariantGroup(i)
                 => /\ Last(outcomes') = "accepted"
                    /\ previous_errors' = previous_errors
                    /\ result'.kind = "ArticleGroupResult"
                    /\ LET reverse_mapping == ReverseMapping(articles)
                           remapped_groups == RemappedGroups(result'.groups, reverse_mapping)
                       IN \E j \in 1..Len(remapped_groups) :
                             /\ remapped_groups[j].title = Canonical(response.groups[i].title)
                             /\ remapped_groups[j].summary = response.groups[i].summary
                             /\ remapped_groups[j].article_ids =
                                   OriginalArticleIds(response.groups[i].article_ids,
                                                      reverse_mapping)

\* C12: case-insensitive label repair.  When a response labels a group with
\* a title that equals a configured category only up to letter case, the
\* result of ArticleGrouperAgent.group_articles holds that group under the
\* canonical title with its article ids and summary, and the label causes
\* no error and no retry.
C12_CaseInsensitiveRepair == [][C12_Step]_vars

\* --------------------------------------------------------------------
\* the invariants that the response under validation violates
ViolatedKinds ==
    LET all_article_ids == Range(article_data)
    IN {k \in {"invalid_ids", "duplicate_ids", "missing_ids"} :
           \/ k = "invalid_ids" /\ InvalidArticleIds(response.groups, all_article_ids) # <<>>
           \/ k = "duplicate_ids" /\ DuplicateArticleIds(response.groups) # <<>>
           \/ k = "missing_ids" /\ MissingArticles(response.groups, all_article_ids) # {}}

\* the kinds of the entries this step appends to previous_errors
RecordedKinds ==
    {previous_errors'[i].kind : i \in (Len(previous_errors) + 1)..Len(previous_errors')}

\* the first check that fails, in the order of the code
FirstViolatedKind ==
    IF "invalid_ids" \in ViolatedKinds THEN "invalid_ids"
    ELSE IF "duplicate_ids" \in ViolatedKinds THEN "duplicate_ids"
    ELSE "missing_ids"

\* every violation of the response is described in the feedback
C13_OriginalStep ==
    ValidatingGroups => RecordedKinds = ViolatedKinds

C13_AmendedStep ==
    (ValidatingGroups /\ ViolatedKinds # {})
        => /\ Len(previous_errors') = Len(previous_errors) + 1
           /\ RecordedKinds = {FirstViolatedKind}
           /\ Last(outcomes') = "rejected"

AppendingStages == {"agent.generate_bullet_points", "client.generate_topic_summary"}

\* the stages whose client keeps use_schema_format
StickyStages == GroupStages \cup AppendingStages

FeedbackOf(request) == request.messages[Len(request.messages)].error_feedback

\* this step issues the request of an attempt that composes a retry message
ComposesRetryMessage ==
    /\ stage \in StickyStages
    /\ pc = "loop"
    /\ attempt > 1
    /\ attempt <= max_retries
    /\ previous_errors # <<>>

\* the error descriptions recorded since the request of the attempt before
ProducedByPreviousAttempt ==
    SubSeq(previous_errors, Len(FeedbackOf(requests[Len(requests)])) + 1,
           Len(previous_errors))

\* the retry message holds the errors of the attempt before and no others
C15_OriginalStep ==
    ComposesRetryMessage
        => FeedbackOf(requests'[Len(requests')]) = ProducedByPreviousAttempt

\* C15 as stated: feedback content.  The feedback given on attempt n+1 is
\* made of the error descriptions produced by attempt n and of none
\* produced by an earlier attempt.
C15_FeedbackOfPreviousAttemptOnly == [][C15_OriginalStep]_vars

\* the retry message holds every error recorded so far, and the record of
\* errors only grows during a call
C15_AmendedStep ==
    /\ ComposesRetryMessage
          => /\ Len(requests') = Len(requests) + 1
             /\ FeedbackOf(requests'[Len(requests')]) = previous_errors
             /\ Len(previous_errors) >= Len(ProducedByPreviousAttempt)
             /\ stage \in GroupStages =>
                   requests'[Len(requests')].messages[1].prompt
                      = "ARTICLE_GROUPING_RETRY_PROMPT"
    /\ (stage \in StickyStages /\ pc \in {"loop", "await", "validate"})
          => /\ Len(previous_errors') >= Len(previous_errors)
             /\ SubSeq(previous_errors', 1, Len(previous_errors)) = previous_errors

\* C15 as amended: the feedback given on attempt n+1 is made of the error
\* descriptions recorded by all attempts 1..n of the call, in the order they
\* were recorded: previous_errors is never cleared during a call.  In the
\* categorization stage the feedback is part of the retry prompt, which is
\* formatted with the valid id list.
C15_FeedbackOfAllAttempts == [][C15_AmendedStep]_vars

\* the third request of group_articles carries the errors of attempts 1 and 2
C15_Witness ==
    /\ stage \in GroupStages
    /\ Len(requests) = 3
    /\ Len(FeedbackOf(requests[3])) = 2
    /\ Len(FeedbackOf(requests[2])) = 1

\* --------------------------------------------------------------------
\* the valid ids the response under validation assigns to no group
OmittedIds == MissingArticles(response.groups, Range(article_data))

\* the error description of the missing-assignment check for the response
MissingAssignmentError ==
    ErrorEntry("missing_ids", Take(SortedSeq(OmittedIds), PreviewLength))

\* group_articles composes the request of a retry in this step
GroupComposesRetry ==
    /\ stage \in GroupStages
    /\ pc = "loop"
    /\ attempt <= max_retries
    /\ previous_errors # <<>>

\* a response that omits valid ids is answered with the missing-assignment
\* error, the next prompt holds it, and a valid partition ends the call
C16_OriginalStep ==
    /\ (ValidatingGroups /\ OmittedIds # {} /\ attempt < max_retries)
          => /\ Last(previous_errors') = MissingAssignmentError
             /\ pc' = "loop"
    /\ GroupComposesRetry
          => Last(previous_errors) \in Range(FeedbackOf(Last(requests')))
    /\ (ValidatingGroups /\ ViolatedKinds = {})
          => /\ result'.kind = "ArticleGroupResult"
             /\ pc' = "client_return"
             /\ requests' = requests
    /\ (stage \in GroupStages /\ pc # "loop") => requests' = requests

C16_AmendedStep ==
    /\ (ValidatingGroups /\ ViolatedKinds = {"missing_ids"})
          => /\ previous_errors' = Append(previous_errors, MissingAssignmentError)
             /\ Range(MissingAssignmentError.ids) \subseteq OmittedIds
             /\ MissingAssignmentError.ids # <<>>
             /\ attempt < max_retries => (pc' = "loop" /\ attempt' = attempt + 1)
    /\ (ValidatingGroups /\ OmittedIds # {} /\ ViolatedKinds # {"missing_ids"})
          => Last(previous_errors').kind \in {"invalid_ids", "duplicate_ids"}
    /\ GroupComposesRetry
          => /\ Len(requests') = Len(requests) + 1
             /\ FeedbackOf(Last(requests')) = previous_errors
    /\ (ValidatingGroups /\ ViolatedKinds = {})
          => /\ result' = ArticleGroupResult(AssembleGroups(response.groups))
             /\ Last(outcomes') = "accepted"
             /\ pc' = "client_return"
             /\ requests' = requests
    /\ (stage \in GroupStages /\ pc # "loop") => requests' = requests

FormatOf(k) == requests[k].response_format

\* C17: sticky fallback within a call.  In group_articles,
\* generate_bullet_points and generate_topic_summary, once the provider has
\* rejected a json_schema request, every later request of the same call is a
\* json_object request; the mode changes at most once per call and no
\* json_schema request follows a json_object request.
C17_StickyFallbackWithinCall ==
    stage \in StickyStages =>
        /\ Len(outcomes) \in {Len(requests), Len(requests) - 1}
        /\ \A k \in 1..Len(outcomes) :
              outcomes[k] = "schema_rejected" =>
                 /\ FormatOf(k) = "json_schema"
                 /\ \A j \in (k + 1)..Len(requests) : FormatOf(j) = "json_object"
        /\ \A k \in 1..Len(requests) : \A j \in (k + 1)..Len(requests) :
              FormatOf(k) = "json_object" => FormatOf(j) = "json_object"
        /\ Count(outcomes, "schema_rejected") <= 1
        /\ ("schema_rejected" \in Range(outcomes)) => ~use_schema_format
        /\ (\E k \in 1..Len(requests) : FormatOf(k) = "json_object")
              => "schema_rejected" \in Range(outcomes)

\* the first request of generate_bullet_points was rejected in schema mode
\* and the two requests after it were json_object requests
C17_Witness ==
    /\ stage = "agent.generate_bullet_points"
    /\ Len(requests) = 3
    /\ outcomes[1] = "schema_rejected"
    /\ FormatOf(1) = "json_schema"
    /\ FormatOf(2) = "json_object"
    /\ FormatOf(3) = "json_object"

\* --------------------------------------------------------------------
\* an earlier call on this client instance was downgraded to json_object
\* mode and the call in progress has met no schema rejection of its own
DowngradedByEarlierCall ==
    /\ BulletStage
    /\ category_index >= 2
    /\ downgraded
    /\ pc \in {"loop", "await", "validate"}
    /\ "schema_rejected" \notin Range(outcomes)

\* C18 as stated: sticky fallback across calls.  After one call on a client
\* instance has been downgraded to json_object mode by a schema rejection,
\* every later call on the same instance uses json_object mode and issues
\* no json_schema request.
C18_StickyFallbackAcrossCalls ==
    DowngradedByEarlierCall =>
        /\ ~use_schema_format
        /\ \A k \in 1..Len(requests) : FormatOf(k) = "json_object"

\* C18 as amended: the fallback lasts for one call.  Every call on a client
\* instance starts in json_schema mode, whatever happened in earlier calls on
\* the instance: its first request is a json_schema request, and it issues
\* json_object requests only after a schema rejection of its own.
C18_FallbackIsPerCall ==
    /\ stage \in StickyStages =>
          /\ (pc = "loop" /\ attempt = 1) => use_schema_format
          /\ requests # <<>> => FormatOf(1) = "json_schema"
    /\ DowngradedByEarlierCall =>
          /\ use_schema_format
          /\ \A k \in 1..Len(requests) : FormatOf(k) = "json_schema"

\* the call for the second category sent a json_schema request although the
\* call for the first category had been downgraded
C18_Witness ==
    /\ DowngradedByEarlierCall
    /\ category_index = 2
    /\ Len(requests) = 1
    /\ FormatOf(1) = "json_schema"
    /\ Len(results) = 1

\* --------------------------------------------------------------------
\* the positions of the requests of the call that have the given format
RequestsOfFormat(format) == {k \in 1..Len(requests) : FormatOf(k) = format}

RateLimitedStep ==
    /\ stage \in StickyStages
    /\ pc = "await"
    /\ attempt < max_retries
    /\ Len(outcomes') = Len(outcomes) + 1
    /\ Last(outcomes') = "rate_limited"

\* this step issues the request of the attempt after a rate-limited one
SendsAfterRateLimit ==
    /\ stage \in StickyStages
    /\ pc = "loop"
    /\ attempt <= max_retries
    /\ outcomes # <<>>
    /\ Last(outcomes) = "rate_limited"

\* the wait of a rate-limited attempt
WaitsBackoff ==
    /\ sleeps' = Append(sleeps, BackoffDelay(attempt))
    /\ attempt' = attempt + 1
    /\ pc' = "loop"

\* wait, no error description, the same messages again
C20_OriginalStep ==
    /\ RateLimitedStep => (WaitsBackoff /\ previous_errors' = previous_errors)
    /\ SendsAfterRateLimit => Last(requests').messages = Last(requests).messages

C20_AmendedStep ==
    /\ (RateLimitedStep /\ stage \in GroupStages)
          => (WaitsBackoff /\ previous_errors' = previous_errors)
    /\ (RateLimitedStep /\ stage \in AppendingStages)
          => /\ WaitsBackoff
             /\ previous_errors' = Append(previous_errors, ErrorEntry("api_error", <<>>))
    /\ (SendsAfterRateLimit /\ stage \in GroupStages)
          => /\ Len(requests') = Len(requests) + 1
             /\ Last(requests').messages = Last(requests).messages
    /\ (SendsAfterRateLimit /\ stage \in AppendingStages)
          => /\ Len(requests') = Len(requests) + 1
             /\ Len(Last(requests').messages) = Len(Last(requests).messages) + 1
             /\ FeedbackOf(Last(requests')) = previous_errors
             /\ Last(previous_errors) = ErrorEntry("api_error", <<>>)

InRetryLoop ==
    /\ stage \in StickyStages
    /\ pc \in {"loop", "await", "validate"}

\* the position of a call in its retry loop: it grows with every step of the
\* call and is the same, largest value once the call is over
CallRank ==
    IF pc \in {"loop", "await", "validate"}
    THEN 3 * attempt + (CASE pc = "loop" -> 0 [] pc = "await" -> 1 [] OTHER -> 2)
    ELSE 3 * (max_retries + 2)

\* the requests of a call never outnumber max_retries, every step of the
\* loop brings the call nearer to its end, and a request is counted by
\* the attempt that issues it
C21_Step ==
    /\ stage \in StickyStages =>
          /\ Len(requests') <= max_retries
          /\ Len(outcomes') <= max_retries
    /\ InRetryLoop =>
          /\ CallRank' > CallRank
          /\ CallRank < 3 * (max_retries + 2)
          /\ attempt' \in {attempt, attempt + 1}
          /\ (Len(requests') = Len(requests) + 1) => Len(requests') = attempt

\* C21: attempt ceiling and termination.  For any sequence of provider
\* outcomes one call of group_articles, generate_bullet_points or
\* generate_topic_summary issues at most max_retries completion requests,
\* rate-limited and schema-rejected attempts included, and every step of the
\* retry loop strictly advances a bounded measure, so the call terminates.
C21_AttemptCeiling == [][C21_Step]_vars

\* a call of group_articles is over after max_retries requests, the first
\* rejected in schema mode and the second rate limited
C21_Witness ==
    /\ stage \in GroupStages
    /\ pc = "client_return"
    /\ Len(requests) = max_retries
    /\ Len(outcomes) = max_retries
    /\ outcomes[1] = "schema_rejected"
    /\ outcomes[2] = "rate_limited"

\* --------------------------------------------------------------------
\* the stages whose completion client has a retry loop
AllStages == StickyStages \cup {"client.extract_articles"}

\* base delay times a power of two
IsBackoffDelay(d) == \E e \in 0..max_retries : d = RetryDelay * Pow2(e)

\* the attempt in progress is the last one the call may make
OnFinalAttempt ==
    /\ stage \in AllStages
    /\ pc \in {"await", "await_schema", "await_object", "validate"}
    /\ attempt >= max_retries

\* the waits of a call as they stand after the step
C22_Step ==
    /\ stage \in AllStages =>
          /\ \A i \in 1..Len(sleeps') : \A j \in i..Len(sleeps') : sleeps'[i] <= sleeps'[j]
          /\ \A i \in 1..Len(sleeps') : IsBackoffDelay(sleeps'[i])
          /\ Len(sleeps') <= max_retries - 1
    /\ OnFinalAttempt => Len(sleeps') <= Len(sleeps)

\* C22: backoff monotonicity.  Within one call of any stage with
\* max_retries = k the sleep durations are non-decreasing, each is the base
\* delay times a power of two, there are at most k - 1 of them, and no wait
\* follows the final attempt.
C22_BackoffMonotonicity == [][C22_Step]_vars

\* extract_articles has waited twice, the second wait twice the first
C22_Witness ==
    /\ stage = "client.extract_articles"
    /\ sleeps = <<RetryDelay, 2 * RetryDelay>>
    /\ pc = "done"

\* --------------------------------------------------------------------
\* the value is a returned result that holds a group for each category
HoldsEveryCategory(value) ==
    /\ value.kind = "ArticleGroupResult"
    /\ \A c \in Range(Categories) :
          \E i \in 1..Len(value.groups) : value.groups[i].title = c

\* the entry point has returned the value (it neither runs nor raised)
Returned(value) == value.kind \notin {"pending", "raised"}

\* C23: every configured category is always present.  Every result returned
\* by OpenAIClient.group_articles and by ArticleGrouperAgent.group_articles,
\* for any input list, the empty list included, holds a group for each
\* configured category.
C23_EveryCategoryPresent ==
    /\ (stage \in GroupStages /\ Returned(result)) => HoldsEveryCategory(result)
    /\ (stage = "agent.group_articles" /\ Returned(agent_result))
          => HoldsEveryCategory(agent_result)

\* --------------------------------------------------------------------
\* ArticleGrouperAgent._create_id_mapping called on its own
\* the longest list of original ids
MaxIds == 3

\* original ids: database keys in any order, some of them inside 1..N
IdPool == {2, 1, -7, 1000}

OriginalIdLists == UNION {[1..n -> IdPool] : n \in 0..MaxIds}

IdsInit ==
    /\ stage = "agent._create_id_mapping"
    /\ max_retries = 1
    /\ articles \in OriginalIdLists
    /\ assigned_category = <<>>
    /\ article_data = <<>>
    /\ ClientIdle
    /\ ElsewhereIdle
    /\ BulletIdle
    /\ ExtractIdle
    /\ TopicIdle

\* the call: both dictionaries are built and returned as a tuple
CreateIdMapping ==
    /\ stage = "agent._create_id_mapping"
    /\ pc = "start"
    /\ agent_result' = [kind |-> "tuple",
                        id_mapping |-> IdMapping(articles),
                        reverse_mapping |-> ReverseMapping(articles)]
    /\ pc' = "done"
    /\ UNCHANGED <<stage, max_retries, groupVars, clientLocals, clientLog, result,
                   bulletVars, extractVars, bullet_points_text, elsewhere, downgraded>>

IdsNext == CreateIdMapping

SpecIds == IdsInit /\ [][IdsNext]_vars

\* no id occurs twice in the list
Distinct(ids) == \A i \in 1..Len(ids) : \A j \in 1..Len(ids) : ids[i] = ids[j] => i = j

\* _create_id_mapping has returned for a list of distinct ids
MappedDistinctIds ==
    /\ stage = "agent._create_id_mapping"
    /\ pc = "done"
    /\ Distinct(articles)

\* C24: identifier sanitizer bijection.  For a list of N distinct ids, in any
\* order and of any values, _create_id_mapping gives the i-th id the dense id
\* i, the dense ids are exactly 1..N, and the two maps are inverses of each
\* other.
C24_SanitizerBijection ==
    MappedDistinctIds =>
        LET forward == agent_result.id_mapping
            reverse == agent_result.reverse_mapping
            N == Len(articles)
        IN /\ DOMAIN forward = Range(articles)
           /\ {forward[x] : x \in DOMAIN forward} = 1..N
           /\ \A i \in 1..N : forward[articles[i]] = i
           /\ DOMAIN reverse = 1..N
           /\ \A x \in Range(articles) : reverse[forward[x]] = x
           /\ \A d \in 1..N : forward[reverse[d]] = d

\* three distinct ids, not in ascending order and one of them inside 1..3
C24_Witness ==
    /\ MappedDistinctIds
    /\ articles = <<1000, -7, 2>>
    /\ agent_result.id_mapping[2] = 3
    /\ agent_result.reverse_mapping[1] = 1000

\* --------------------------------------------------------------------
\* two calls interleaved on one client instance.  The arguments and local
\* variables of a call live in its own frame; the running call's frame is in
\* the variables, the frame of the call that is not running is in other_call.
\* What the two calls share is the client object: max_retries and the
\* configured categories, which no call writes.
PairStages == {"client.group_articles", "agent.generate_bullet_points"}

callLocals ==
    [articles |-> articles, article_data |-> article_data, pc |-> pc,
     attempt |-> attempt, use_schema_format |-> use_schema_format,
     previous_errors |-> previous_errors, messages |-> messages,
     response |-> response, requests |-> requests, sleeps |-> sleeps,
     outcomes |-> outcomes, result |-> result, agent_result |-> agent_result,
     articles_by_category |-> articles_by_category,
     category_index |-> category_index, results |-> results,
     error_message |-> error_message]

\* the frame of a call that has not started
IdleLocals(ids, categories) ==
    [articles |-> ids, article_data |-> <<>>, pc |-> "start", attempt |-> 0,
     use_schema_format |-> TRUE, previous_errors |-> <<>>, messages |-> <<>>,
     response |-> NoBody, requests |-> <<>>, sleeps |-> <<>>, outcomes |-> <<>>,
     result |-> NotReturned, agent_result |-> NotReturned,
     articles_by_category |-> categories, category_index |-> 0,
     results |-> <<>>, error_message |-> "None"]

\* the call that is running
ActiveCall == 3 - other_call.id

PairInit ==
    /\ stage \in PairStages
    /\ max_retries = MaxRetriesBound
    /\ ClientIdle
    /\ ExtractIdle
    /\ TopicIdle
    /\ SelectionIdle
    /\ StoreIdle
    /\ assigned_category = <<>>
    /\ article_data = <<>>
    /\ category_index = 0
    /\ results = <<>>
    /\ error_message = "None"
    /\ dry_run = TRUE
    /\ bullet_points_table = <<>>
    /\ generation_logs = <<>>
    /\ IF stage = "client.group_articles"
       THEN /\ articles = <<1>>
            /\ articles_by_category = <<>>
            /\ other_call = [id |-> 2, locals |-> IdleLocals(<<1, 2>>, <<>>)]
       ELSE /\ articles = <<>>
            /\ articles_by_category = <<"Computer Vision">>
            /\ other_call = [id |-> 2, locals |-> IdleLocals(<<>>, <<"Robotics">>)]

\* the responses the provider gives in the interleaved runs: no JSON, a
\* valid answer, an answer that fails validation
PairGroupBodies ==
    {[kind |-> "text", groups |-> <<>>],
     [kind |-> "ok", groups |-> <<>>],
     [kind |-> "ok",
      groups |-> <<ArticleGroupData("Computer Vision", ModelSummary, article_data)>>]}

PairBulletBodies ==
    {[kind |-> "text", bullet_points |-> <<>>],
     [kind |-> "ok", bullet_points |-> <<[has_text |-> TRUE, score |-> "5"]>>],
     [kind |-> "ok", bullet_points |-> <<[has_text |-> TRUE, score |-> "11"]>>]}

PairGroupResponds == GroupResponds /\ response' \in PairGroupBodies

PairBulletResponds == BulletResponds /\ response' \in PairBulletBodies

\* the call whose frame is given has returned
CallOver(locals) ==
    \/ locals.pc = "done"
    \/ stage = "client.group_articles" /\ locals.pc = "client_return"

\* a switch that leaves use_schema_format where it is, as if the flag were
\* a field of the client shared by the calls
Switch_SharedMode ==
    /\ stage \in PairStages
    /\ other_call # NoCall
    /\ pc \in {"start", "await"} \/ CallOver(callLocals)
    /\ ~CallOver(other_call.locals)
    /\ other_call' = [id |-> ActiveCall, locals |-> callLocals]
    /\ articles' = other_call.locals.articles
    /\ article_data' = other_call.locals.article_data
    /\ pc' = other_call.locals.pc
    /\ attempt' = other_call.locals.attempt
    /\ use_schema_format' = use_schema_format
    /\ previous_errors' = other_call.locals.previous_errors
    /\ messages' = other_call.locals.messages
    /\ response' = other_call.locals.response
    /\ requests' = other_call.locals.requests
    /\ sleeps' = other_call.locals.sleeps
    /\ outcomes' = other_call.locals.outcomes
    /\ result' = other_call.locals.result
    /\ agent_result' = other_call.locals.agent_result
    /\ articles_by_category' = other_call.locals.articles_by_category
    /\ category_index' = other_call.locals.category_index
    /\ results' = other_call.locals.results
    /\ error_message' = other_call.locals.error_message
    /\ UNCHANGED <<stage, max_retries, assigned_category, dry_run, bullet_points_table,
                   generation_logs, extractVars, bullet_points_text, downgraded,
                   selectionVars, storeVars>>

\* the scheduler suspends the running call and resumes the other one: the
\* frames change places, the client object is untouched.  The running call
\* gives way before its first step, while it waits for the provider, and
\* when it is over; the steps in between touch its own frame only.
Switch ==
    /\ stage \in PairStages
    /\ other_call # NoCall
    /\ pc \in {"start", "await"} \/ CallOver(callLocals)
    /\ ~CallOver(other_call.locals)
    /\ other_call' = [id |-> ActiveCall, locals |-> callLocals]
    /\ articles' = other_call.locals.articles
    /\ article_data' = other_call.locals.article_data
    /\ pc' = other_call.locals.pc
    /\ attempt' = other_call.locals.attempt
    /\ use_schema_format' = other_call.locals.use_schema_format
    /\ previous_errors' = other_call.locals.previous_errors
    /\ messages' = other_call.locals.messages
    /\ response' = other_call.locals.response
    /\ requests' = other_call.locals.requests
    /\ sleeps' = other_call.locals.sleeps
    /\ outcomes' = other_call.locals.outcomes
    /\ result' = other_call.locals.result
    /\ agent_result' = other_call.locals.agent_result
    /\ articles_by_category' = other_call.locals.articles_by_category
    /\ category_index' = other_call.locals.category_index
    /\ results' = other_call.locals.results
    /\ error_message' = other_call.locals.error_message
    /\ UNCHANGED <<stage, max_retries, assigned_category, dry_run, bullet_points_table,
                   generation_logs, extractVars, bullet_points_text, downgraded,
                   selectionVars, storeVars>>

PairNext ==
    \/ ClientEntry
    \/ GroupArticlesBegin
    \/ GroupSend
    \/ GroupLoopEnds
    \/ GroupSchemaRejected
    \/ GroupRateLimited
    \/ GroupApiError
    \/ PairGroupResponds
    \/ GroupValidate
    \/ GenerateBulletPointsBegin
    \/ BulletSend
    \/ BulletLoopEnds
    \/ BulletSchemaRejected
    \/ BulletApiError
    \/ PairBulletResponds
    \/ BulletValidate
    \/ AgentGenerateBulletPoints
    \/ AgentAfterCategory
    \/ Switch

SpecPair == PairInit /\ [][PairNext]_vars

\* --------------------------------------------------------------------
Prefix(s, t) == Len(s) <= Len(t) /\ s = SubSeq(t, 1, Len(s))

\* the frame holds what a call running alone would hold: the counter, the
\* mode, the feedback, the messages and the result follow from the call's
\* own requests and their outcomes
RunsAlone(locals) ==
    LET sent == Len(locals.requests)
        rejected_before(k) ==
            \E j \in 1..(k - 1) : j <= Len(locals.outcomes)
                                  /\ locals.outcomes[j] = "schema_rejected"
        schema_rejections ==
            Cardinality({j \in 1..Len(locals.outcomes) :
                            locals.outcomes[j] = "schema_rejected"})
    IN \* the attempt counter
       /\ sent <= locals.attempt
       /\ locals.pc \in {"await", "validate"} => sent = locals.attempt
       /\ Len(locals.outcomes) \in {sent, sent - 1}
       \* the decoding mode
       /\ locals.use_schema_format = (schema_rejections = 0)
       /\ \A k \in 1..sent :
             locals.requests[k].response_format =
                IF rejected_before(k) THEN "json_object" ELSE "json_schema"
       \* the error feedback
       /\ Len(locals.previous_errors) <= Len(locals.outcomes) - schema_rejections
       /\ \A k \in 1..sent : Prefix(FeedbackOf(locals.requests[k]), locals.previous_errors)
       \* the message list
       /\ sent > 0 => locals.requests[sent].messages = locals.messages
       /\ \A k \in 1..(sent - 1) :
             Len(locals.requests[k].messages) <= Len(locals.requests[k + 1].messages)
       \* the result
       /\ locals.result.kind = "ArticleGroupResult" =>
             /\ Range(Flatten(locals.result.groups)) \subseteq Range(locals.article_data)
             /\ (locals.outcomes # <<>> /\ Last(locals.outcomes) = "accepted")
                   => Range(Flatten(locals.result.groups)) = Range(locals.article_data)
       /\ locals.result.kind = "BulletPointResult" =>
             /\ locals.result.category = locals.articles_by_category[locals.category_index]
             /\ (locals.result.bullet_points # <<>>)
                   => (locals.outcomes # <<>> /\ Last(locals.outcomes) = "accepted")

\* C25: independence of interleaved calls.  When two group_articles calls,
\* or two generate_bullet_points calls, are interleaved on one client
\* instance, the attempt counter, the decoding mode, the error feedback and
\* the message list of each call are what its own requests and their
\* outcomes make them, and its result is made of its own input and its own
\* last response.
C25_InterleavedCallsIndependent ==
    (stage \in PairStages /\ other_call # NoCall)
        => /\ RunsAlone(callLocals)
           /\ RunsAlone(other_call.locals)

\* both calls wait for the provider: the suspended call has been rejected in
\* schema mode and has sent its json_object request, the running call has
\* sent its first request in schema mode
C25_Witness ==
    /\ stage \in PairStages
    /\ other_call # NoCall
    /\ pc = "await"
    /\ other_call.locals.pc = "await"
    /\ other_call.locals.outcomes = <<"schema_rejected">>
    /\ Len(other_call.locals.requests) = 2
    /\ other_call.locals.requests[2].response_format = "json_object"
    /\ Len(requests) = 1
    /\ FormatOf(1) = "json_schema"

\* --------------------------------------------------------------------
\* generate_bullet_points validates a response with an item that fails
ValidatingFailedItem ==
    /\ BulletStage
    /\ pc = "validate"
    /\ response.kind = "ok"
    /\ ItemErrors(response.bullet_points) # <<>>

\* this step returns the response under validation as the result
ReturnsResponse ==
    /\ stage \in StickyStages
    /\ pc = "validate"
    /\ Len(outcomes') = Len(outcomes) + 1
    /\ Last(outcomes') = "accepted"

\* a returned response recorded no error, and a response with a failed
\* item is not returned but retried
C26_Step ==
    /\ ReturnsResponse => previous_errors' = previous_errors
    /\ ValidatingFailedItem =>
          /\ ~ReturnsResponse
          /\ attempt < max_retries => (pc' = "loop" /\ attempt' = attempt + 1)

\* C26: validated-or-rejected.  A response is used as the returned result
\* only if its validation recorded no error; in generate_bullet_points a
\* response with an item that fails validation is not returned, the
\* attempt counts as failed and is retried while attempts remain.
C26_ValidatedOrRejected == [][C26_Step]_vars

\* --------------------------------------------------------------------
\* BulletPointGeneratorAgent._get_articles_by_category called on its own
\* the assigned_category values a date range can hold articles of
AssignedCategoryPool == {"Computer Vision", "Robotics", "LLMs", "other topics"}

\* _get_categories_with_articles: a SELECT DISTINCT, in any order
CategoriesFound ==
    {c \in UNION {[1..n -> AssignedCategoryPool] :
                     n \in 0..Cardinality(AssignedCategoryPool)} : Distinct(c)}

\* self.excluded_categories, set by __init__
ExcludedCategories == {"other topics", "None"}

\* excluded = self.excluded_categories.copy(), and "other topics" added to
\* it when the flag is off
Excluded(flag) ==
    IF flag THEN ExcludedCategories ELSE ExcludedCategories \cup {"other topics"}

\* the keys of the dictionary returned, in insertion order
CategoriesToProcess(found, flag) ==
    SelectSeq(found, LAMBDA cat : cat \notin Excluded(flag))

SelectionInit ==
    /\ stage = "agent._get_articles_by_category"
    /\ max_retries = 1
    /\ categories_with_articles \in CategoriesFound
    /\ include_other_topics \in BOOLEAN
    /\ ClientIdle
    /\ GroupIdle
    /\ BulletIdle
    /\ ExtractIdle
    /\ TopicIdle
    /\ PairIdle
    /\ StoreIdle

GetArticlesByCategory ==
    /\ stage = "agent._get_articles_by_category"
    /\ pc = "start"
    /\ articles_by_category' =
          CategoriesToProcess(categories_with_articles, include_other_topics)
    /\ pc' = "done"
    /\ UNCHANGED <<stage, max_retries, groupVars, clientLocals, clientLog, result,
                   agent_result, category_index, results, error_message, dry_run,
                   bullet_points_table, generation_logs, extractVars,
                   bullet_points_text, downgraded, other_call, selectionVars, storeVars>>

SelectionNext == GetArticlesByCategory

SpecSelection == SelectionInit /\ [][SelectionNext]_vars

\* C27: the include_other_topics flag.  _get_articles_by_category has the
\* category "other topics" among the categories to process exactly when
\* include_other_topics is True and the date range holds articles of it.
C27_IncludeOtherTopics ==
    (stage = "agent._get_articles_by_category" /\ pc = "done")
        => ("other topics" \in Range(articles_by_category)
               <=> (include_other_topics
                       /\ "other topics" \in Range(categories_with_articles)))

\* --------------------------------------------------------------------
\* EmailDownloader.download_emails, run any number of times on one database
MaxMessages == 2
MaxRuns == 2

\* Gmail message ids, and the contents parse_email_message can yield for one
MessageIds == {"m1", "m2"}
MessageBodies == {"v1", "v2"}

ParsedMessages == [message_id : MessageIds, body : MessageBodies]

\* get_emails_from_sender: one entry per Gmail message of the sender
MessageLists ==
    {m \in UNION {[1..n -> ParsedMessages] : n \in 0..MaxMessages} :
        \A i, j \in 1..Len(m) : m[i].message_id = m[j].message_id => i = j}

\* get_email_by_message_id
GetEmailByMessageId(rows, message_id) ==
    {i \in 1..Len(rows) : rows[i].message_id = message_id}

\* an insert with no lookup before it
AddEmail_NoLookup(rows, message) ==
    Append(rows, [message_id |-> message.message_id, body |-> message.body])

\* DatabaseManager.add_email: the existing row is returned as it is, a new
\* row is inserted only when the message_id is not stored
AddEmail(rows, message) ==
    IF GetEmailByMessageId(rows, message.message_id) # {}
    THEN rows
    ELSE Append(rows, [message_id |-> message.message_id, body |-> message.body])

\* the loop of _download_emails_from_source over the first n messages:
\* the table and new_emails after it
RECURSIVE DownloadFromSource(_, _, _, _)
DownloadFromSource(rows, list, n, forced) ==
    IF n = 0
    THEN [rows |-> rows, new_emails |-> 0]
    ELSE LET before == DownloadFromSource(rows, list, n - 1, forced)
             message == list[n]
         IN  IF GetEmailByMessageId(before.rows, message.message_id) # {} /\ ~forced
             THEN before
             ELSE [rows |-> AddEmail(before.rows, message),
                   new_emails |-> before.new_emails + 1]

EmailsInit ==
    /\ stage = "downloader.download_emails"
    /\ max_retries = 1
    /\ ClientIdle
    /\ GroupIdle
    /\ BulletIdle
    /\ ExtractIdle
    /\ TopicIdle
    /\ PairIdle
    /\ SelectionIdle
    /\ StoreIdle

\* one run of download_emails on one source: the messages are processed in
\* order until the end of the list or an exception, then the run is logged
DownloadEmails ==
    /\ stage = "downloader.download_emails"
    /\ Len(download_logs) < MaxRuns
    /\ \E list \in MessageLists, forced \in BOOLEAN, raised \in BOOLEAN :
          LET after == DownloadFromSource(emails, list, Len(list), forced)
          IN  /\ emails' = after.rows
              /\ download_logs' =
                    Append(download_logs,
                           [emails_downloaded |->
                                IF raised THEN 0 ELSE after.new_emails,
                            error_message |->
                                IF raised THEN "Exception" ELSE "None"])
              /\ gmail_messages' = list
              /\ force' = forced
    /\ UNCHANGED <<stage, max_retries, groupVars, pc, clientLocals, clientLog,
                   result, agent_result, bulletVars, extractVars,
                   bullet_points_text, downgraded, other_call, selectionVars>>

EmailsNext == DownloadEmails

SpecEmails == EmailsInit /\ [][EmailsNext]_vars

\* no two rows of the emails table have the same message_id
OneRowPerMessageId(rows) ==
    \A i, j \in 1..Len(rows) : rows[i].message_id = rows[j].message_id => i = j

C30_Step ==
    /\ OneRowPerMessageId(emails)
    /\ OneRowPerMessageId(emails')
    /\ Len(emails') >= Len(emails)
    /\ \A i \in 1..Len(emails) : emails'[i] = emails[i]

\* C30: email de-duplication.  After any sequence of download_emails runs,
\* with any values of force, the emails table holds at most one row per
\* message_id, and a run that downloads a message whose message_id is
\* already stored leaves the stored row unchanged.
C30_EmailDeduplication == [][C30_Step]_vars

\* a forced run has downloaded, with other content, the one message an
\* earlier run stored; the run counted it as new and the row is as it was
C30_Witness ==
    /\ stage = "downloader.download_emails"
    /\ Len(download_logs) = 2
    /\ force
    /\ emails = <<[message_id |-> "m1", body |-> "v1"]>>
    /\ gmail_messages = <<[message_id |-> "m1", body |-> "v2"]>>
    /\ download_logs[2].emails_downloaded = 1

\* --------------------------------------------------------------------
\* the two clients the claim is about
RejectionStages == GroupStages \cup {"agent.generate_bullet_points"}

\* this step handles the rejection of a json_schema request
SchemaRejectedStep ==
    /\ stage \in RejectionStages
    /\ pc = "await"
    /\ Len(outcomes') = Len(outcomes) + 1
    /\ Last(outcomes') = "schema_rejected"

\* this step issues the request of the attempt after a rejected one
SendsAfterRejection ==
    /\ stage \in RejectionStages
    /\ pc = "loop"
    /\ attempt <= max_retries
    /\ outcomes # <<>>
    /\ Last(outcomes) = "schema_rejected"

\* the rejection costs an attempt, no wait and no error description
RejectionConsumesAttempt ==
    SchemaRejectedStep =>
        /\ attempt' = attempt + 1
        /\ sleeps' = sleeps
        /\ previous_errors' = previous_errors
        /\ messages' = messages

\* after a rejection on the first attempt the other requests of the call
\* number at most max_retries - 1
AttemptsLeftAfterRejection ==
    (stage \in RejectionStages /\ outcomes' # <<>> /\ outcomes'[1] = "schema_rejected")
        => Len(requests') - 1 <= max_retries - 1

C28_OriginalStep ==
    /\ RejectionConsumesAttempt
    /\ AttemptsLeftAfterRejection
    /\ SendsAfterRejection =>
          /\ Last(requests').response_format = "json_object"
          /\ Last(requests').messages = Last(requests).messages

\* C28 as stated: a schema rejection consumes one attempt.  In
\* group_articles and generate_bullet_points the rejected attempt is
\* followed by no wait and records no error, the next attempt sends the same
\* messages in json_object mode, and at most max_retries - 1 attempts remain
\* after a rejection on the first attempt.
C28_RejectionRetriedVerbatim == [][C28_OriginalStep]_vars

C28_AmendedStep ==
    /\ RejectionConsumesAttempt
    /\ AttemptsLeftAfterRejection
    /\ SendsAfterRejection =>
          /\ Last(requests').response_format = "json_object"
          /\ (stage \in GroupStages \/ previous_errors = <<>>)
                => Last(requests').messages = Last(requests).messages
          /\ (BulletStage /\ previous_errors # <<>>)
                => Last(requests').messages =
                      Append(Last(requests).messages,
                             [role |-> "user", prompt |-> "BULLET_POINT_RETRY_PROMPT",
                              error_feedback |-> previous_errors])

\* C28 as amended: the same, except that generate_bullet_points sends the
\* same messages after a rejection only when no earlier attempt of the call
\* has recorded an error (always so after a rejection on the first
\* attempt); when one has, the next attempt appends one more retry message
\* with the errors recorded so far to the messages of the rejected request.
C28_RejectionConsumesOneAttempt == [][C28_AmendedStep]_vars

\* generate_bullet_points: the first attempt met an API error, the second
\* was rejected in schema mode, the third sent one message more
C28_Witness ==
    /\ BulletStage
    /\ Len(outcomes) >= 2
    /\ outcomes[1] = "api_error"
    /\ outcomes[2] = "schema_rejected"
    /\ Len(requests) = 3
    /\ FormatOf(3) = "json_object"
    /\ Len(requests[3].messages) = Len(requests[2].messages) + 1
    /\ sleeps = <<BackoffDelay(1)>>

\* --------------------------------------------------------------------
\* extract_articles validates an object that has no "articles" key
ValidatingMissingKey ==
    /\ ExtractStage
    /\ pc = "validate"
    /\ response.kind = "no_key"

C29_Step ==
    /\ ValidatingMissingKey =>
          /\ result' = ExtractionResult(<<>>)
          /\ pc' = "done"
          /\ sleeps' = sleeps
          /\ requests' = requests
          /\ attempt' = attempt
    /\ (ExtractStage /\ result'.kind = "dict") => "articles" \in DOMAIN result'
    /\ (ExtractStage /\ result'.kind # "pending") => result'.kind \in {"dict", "raised"}
    /\ (ExtractStage /\ result'.kind = "raised") =>
          /\ attempt' = max_retries
          /\ "accepted" \notin Range(outcomes')
          /\ Cardinality(RequestsOfFormat("json_schema")) = max_retries
          /\ Len(sleeps') = max_retries - 1

====
